---- MODULE Spec2Model ----
(***************************************************************************)
(* A model of the browser-side session layer of js-common-app:             *)
(*   - AuthStorage  (src/src/auth-storage.js), the key-prefixed            *)
(*     persistence facade over LocalStorage and the cookie jar;            *)
(*   - BasicUserStore (src/src/store/basic-user-store.js), the session     *)
(*     state container with its setters and its login / logout /           *)
(*     token-revalidation workflows;                                       *)
(*   - the access-token part of the request interceptor                    *)
(*     (src/unnamed/part_005, fixRequestHeader).                           *)
(*                                                                         *)
(* JavaScript values are represented as follows.  Strings are TLA+         *)
(* strings, with the two sentinels Undefined and Null standing for the     *)
(* JavaScript values undefined and null.  A slot that holds an object, an  *)
(* array or a boolean (the token, the privilege list, the save flag) is    *)
(* an optional: None (<<>>) when it is null / undefined / absent, and      *)
(* Some(x) (<<x>>) when it holds x.                                        *)
(***************************************************************************)
EXTENDS Naturals, Sequences, FiniteSets, TLC

Undefined == "<undefined>"

Null == "<null>"

None == <<>>

Some(x) == <<x>>

\* JavaScript truthiness of a string-or-nullish value (`if (v)`, `!!v`).
Truthy(v) == v \notin {Undefined, Null, ""}

\* The `a ?? b` operator on a string-or-nullish value.
Coalesce(v, dflt) == IF v \in {Undefined, Null} THEN dflt ELSE v

(***************************************************************************)
(* Bounds of the model and the input domains drawn from them.              *)
(***************************************************************************)
\* Number of distinct access-token values the server issues in a behaviour.
NumTokens == 1

TokenNames == <<"tok1", "tok2", "tok3", "tok4">>

TokenValues == {TokenNames[i] : i \in 1..NumTokens}

\* The value of the token a remembered earlier session left in the cookie.
SavedTokenValue == "tok0"

\* A token object; only its `value` property matters to the code modelled.
Token(v) == [value |-> v]

\* `token?.value`
TokenValueOf(t) == IF t = None THEN Undefined ELSE t[1].value

\* config.get('default_avatar_male', '') and config.get('default_avatar_female', '')
DefaultAvatarMale == "male.png"

DefaultAvatarFemale == "female.png"

\* config.get('social_network', null) and config.get('social_network_app_id', null)
ConfigSocialNetwork == "WECHAT"

ConfigAppId == "app1"

(***************************************************************************)
(* AuthStorage: what each load operation returns.  A string slot holds     *)
(* Undefined when the key is absent (LocalStorage.get returns undefined);  *)
(* the token, privileges, roles and save-flag slots are optionals.         *)
(***************************************************************************)
EmptyStorage ==
  [user_id |-> Undefined, username |-> Undefined, nickname |-> Undefined,
   password |-> Undefined, save_login |-> None, name |-> Undefined,
   gender |-> Undefined, mobile |-> Undefined, avatar |-> Undefined,
   privileges |-> None, roles |-> None, token |-> None,
   organization |-> Undefined]

StoreUserId(d, id) == [d EXCEPT !.user_id = id]

RemoveUserId(d) == [d EXCEPT !.user_id = Undefined]

StoreUsername(d, username) == [d EXCEPT !.username = username]

RemoveUsername(d) == [d EXCEPT !.username = Undefined]

StorePassword(d, password) == [d EXCEPT !.password = password]

RemovePassword(d) == [d EXCEPT !.password = Undefined]

StoreSaveLogin(d, saveLogin) == [d EXCEPT !.save_login = Some(saveLogin)]

StoreMobile(d, mobile) == [d EXCEPT !.mobile = mobile]

RemoveMobile(d) == [d EXCEPT !.mobile = Undefined]

StoreAvatar(d, avatar) == [d EXCEPT !.avatar = avatar]

StoreToken(d, token) == [d EXCEPT !.token = Some(token)]

AuthRemoveToken(d) == [d EXCEPT !.token = None]

StorePrivileges(d, privileges) == [d EXCEPT !.privileges = Some(privileges)]

RemovePrivileges(d) == [d EXCEPT !.privileges = None]

StoreRoles(d, roles) == [d EXCEPT !.roles = Some(roles)]

RemoveRoles(d) == [d EXCEPT !.roles = None]

RemoveOrganization(d) == [d EXCEPT !.organization = Undefined]

\* storeUserInfo(user): the seven profile keys, when user is not null.
StoreUserInfo(d, user) ==
  IF user = None THEN d
  ELSE [d EXCEPT !.user_id = user[1].id, !.username = user[1].username,
                 !.nickname = user[1].nickname, !.avatar = user[1].avatar,
                 !.name = user[1].name, !.gender = user[1].gender,
                 !.mobile = user[1].mobile]

\* loadUserInfo(): always an object, its properties undefined for absent keys.
LoadUserInfo(d) ==
  [id |-> d.user_id, username |-> d.username, nickname |-> d.nickname,
   avatar |-> d.avatar, name |-> d.name, gender |-> d.gender,
   mobile |-> d.mobile, organization |-> d.organization]

RemoveUserInfo(d) ==
  [d EXCEPT !.user_id = Undefined, !.username = Undefined,
            !.nickname = Undefined, !.avatar = Undefined,
            !.name = Undefined, !.gender = Undefined,
            !.mobile = Undefined, !.organization = Undefined]

\* A variant that removes the token cookie only and keeps the rest.
RemoveLoginResponseTokenOnly(d) == AuthRemoveToken(d)

\* removeLoginResponse(): the whole persisted login bundle.
RemoveLoginResponse(d) ==
  RemoveOrganization(RemoveRoles(RemovePrivileges(AuthRemoveToken(
    RemovePassword(RemoveUserInfo(d))))))

(***************************************************************************)
(* BasicUserStore.  The operators below act on a "world" w = [m, d]: m is  *)
(* the in-memory state of the store and d the contents of its AuthStorage. *)
(* A user object is a record of the seven profile properties plus          *)
(* `organization`, which only loadUserInfo() produces.                     *)
(***************************************************************************)
\* The object ensureUserExist() creates for a null user.
EmptyUser ==
  [id |-> Null, username |-> "", nickname |-> "", avatar |-> "", name |-> "",
   gender |-> "", mobile |-> "", organization |-> Undefined]

\* The state the constructor hydrates from the AuthStorage.
Construct(d) ==
  [user |-> Some(LoadUserInfo(d)),
   password |-> Coalesce(d.password, ""),
   saveLogin |-> IF d.save_login = None THEN FALSE ELSE d.save_login[1],
   socialNetwork |-> ConfigSocialNetwork,
   appId |-> ConfigAppId,
   openId |-> Null,
   token |-> d.token,
   privileges |-> IF d.privileges = None THEN <<>> ELSE d.privileges[1],
   roles |-> IF d.roles = None THEN <<>> ELSE d.roles[1]]

\* A variant of loggedIn that looks at the token object only, not its value.
loggedInNonNull(m) == m.token # None

\* get loggedIn(): !!this.token?.value
loggedIn(m) == Truthy(TokenValueOf(m.token))

EnsureUserExist(w) ==
  IF w.m.user = None THEN [w EXCEPT !.m.user = Some(EmptyUser)] ELSE w

\* resetState(): Pinia's $reset() rebuilds the initial state, which for a
\* class-based store is the state a fresh construction produces.
ResetState(w) == [w EXCEPT !.m = Construct(w.d)]

SetUserInfo(w, user) ==
  LET w1 == [w EXCEPT !.m.user = Some(user)]
  IN  IF w1.m.saveLogin
        THEN [w1 EXCEPT !.d = StoreUserInfo(w1.d, w1.m.user)]
        ELSE w1

SetUserId(w, userId) ==
  LET w1 == [EnsureUserExist(w) EXCEPT !.m.user[1].id = userId]
  IN  IF w1.m.saveLogin
        THEN [w1 EXCEPT !.d = StoreUserId(w1.d, userId)]
        ELSE [w1 EXCEPT !.d = RemoveUserId(w1.d)]

SetUsername(w, username) ==
  LET w1 == [EnsureUserExist(w) EXCEPT !.m.user[1].username = username]
  IN  IF w1.m.saveLogin
        THEN [w1 EXCEPT !.d = StoreUsername(w1.d, username)]
        ELSE [w1 EXCEPT !.d = RemoveUsername(w1.d)]

SetPassword(w, password) ==
  LET w1 == [w EXCEPT !.m.password = password]
  IN  IF w1.m.saveLogin
        THEN [w1 EXCEPT !.d = StorePassword(w1.d, password)]
        ELSE [w1 EXCEPT !.d = RemovePassword(w1.d)]

SetMobile(w, mobile) ==
  LET w1 == [EnsureUserExist(w) EXCEPT !.m.user[1].mobile = mobile]
  IN  IF w1.m.saveLogin
        THEN [w1 EXCEPT !.d = StoreMobile(w1.d, mobile)]
        ELSE [w1 EXCEPT !.d = RemoveMobile(w1.d)]

SetAvatar(w, avatar) ==
  LET w1 == [EnsureUserExist(w) EXCEPT !.m.user[1].avatar = Coalesce(avatar, "")]
  IN  [w1 EXCEPT !.d = StoreAvatar(w1.d, avatar)]

SetSaveLogin(w, saveLogin) ==
  [w EXCEPT !.m.saveLogin = saveLogin, !.d = StoreSaveLogin(w.d, saveLogin)]

\* setToken(token): this.token = { ...token }
SetToken(w, token) ==
  LET w1 == [w EXCEPT !.m.token = Some(token)]
  IN  IF w1.m.saveLogin
        THEN [w1 EXCEPT !.d = StoreToken(w1.d, token)]
        ELSE [w1 EXCEPT !.d = AuthRemoveToken(w1.d)]

RemoveToken(w) == [w EXCEPT !.m.token = None, !.d = AuthRemoveToken(w.d)]

SetPrivileges(w, privileges) ==
  [w EXCEPT !.m.privileges = privileges,
            !.d = StorePrivileges(w.d, privileges)]

SetRoles(w, roles) ==
  [w EXCEPT !.m.roles = roles, !.d = StoreRoles(w.d, roles)]

SetOpenId(w, socialNetwork, appId, openId) ==
  [w EXCEPT !.m.socialNetwork = socialNetwork, !.m.appId = appId,
            !.m.openId = openId]

RefreshAvatar(w) ==
  LET w1 == EnsureUserExist(w)
      user == w1.m.user[1]
  IN  IF ~Truthy(user.avatar) /\ Truthy(user.gender)
        THEN CASE user.gender = "MALE" -> SetAvatar(w1, DefaultAvatarMale)
               [] user.gender = "FEMALE" -> SetAvatar(w1, DefaultAvatarFemale)
               [] OTHER -> SetAvatar(w1, "")
        ELSE w1

SetLoginResponse(w, response) ==
  RefreshAvatar(
    SetRoles(
      SetPrivileges(
        SetToken(SetUserInfo(w, response.user), response.token),
        response.privileges),
      response.roles))

\* this.organization as other code reads it: no statement of the class
\* assigns it (the constructor, setLoginResponse and resetState included),
\* so the property is undefined in every state of the store.
organizationOf(m) == Undefined

\* mergeUserInfo(info): a field of the profile is taken from info when it is
\* empty in the store and non-empty in info; then the avatar is refreshed
\* and, when saveLogin is set, the profile is stored.
MergedFields == {"username", "name", "nickname", "gender", "avatar", "mobile"}

\* A variant of mergeUserInfo in which the incoming value wins.
MergeUserInfoIncomingWins(w, info) ==
  LET w0 == EnsureUserExist(w)
      user == w0.m.user[1]
      merged == [f \in DOMAIN user |->
                   IF f \in MergedFields /\ Truthy(info[f])
                     THEN info[f] ELSE user[f]]
      w1 == RefreshAvatar([w0 EXCEPT !.m.user = Some(merged)])
  IN  IF w1.m.saveLogin
        THEN [w1 EXCEPT !.d = StoreUserInfo(w1.d, w1.m.user)]
        ELSE w1

MergeUserInfo(w, info) ==
  LET w0 == EnsureUserExist(w)
      user == w0.m.user[1]
      merged == [f \in DOMAIN user |->
                   IF f \in MergedFields /\ ~Truthy(user[f]) /\ Truthy(info[f])
                     THEN info[f] ELSE user[f]]
      w1 == RefreshAvatar([w0 EXCEPT !.m.user = Some(merged)])
  IN  IF w1.m.saveLogin
        THEN [w1 EXCEPT !.d = StoreUserInfo(w1.d, w1.m.user)]
        ELSE w1

(***************************************************************************)
(* isTokenValid(userId, tokenValue), as a function of how the call of the  *)
(* authentication API's checkToken ends.                                   *)
(***************************************************************************)
\* How checkToken can end: it resolves to a token object, to null or to
\* another falsy value, it rejects, or it throws before returning a promise.
CheckOutcomes ==
  {[kind |-> "resolve", value |-> "token"], [kind |-> "resolve", value |-> Null],
   [kind |-> "resolve", value |-> ""], [kind |-> "reject", value |-> Undefined],
   [kind |-> "throw", value |-> Undefined]}

\* A variant of isTokenValid without the try/catch: a failure of checkToken
\* is passed on to the caller.
IsTokenValidNoCatch(outcome) ==
  IF outcome.kind = "resolve"
    THEN [settled |-> "resolved", value |-> Truthy(outcome.value)]
    ELSE [settled |-> "rejected", value |-> FALSE]

\* The promise isTokenValid returns: try { return !!(await checkToken()) }
\* catch { return false }.
IsTokenValid(outcome) ==
  IF outcome.kind = "resolve"
    THEN [settled |-> "resolved", value |-> Truthy(outcome.value)]
    ELSE [settled |-> "resolved", value |-> FALSE]

(***************************************************************************)
(* Inputs of the model.                                                    *)
(***************************************************************************)
UserA ==
  [id |-> "u1", username |-> "alice", nickname |-> "Ali", avatar |-> "",
   name |-> "Alice", gender |-> "FEMALE", mobile |-> "m1",
   organization |-> Undefined]

UserB ==
  [id |-> "u2", username |-> "bob", nickname |-> "", avatar |-> "b.png",
   name |-> "", gender |-> "", mobile |-> "", organization |-> Undefined]

UserInputs == {UserA, UserB}

Usernames == {"alice"}

Passwords == {"pw1"}

Mobiles == {"m1"}

OpenIds == {"oid1"}

UserIds == {"u2"}

Avatars == {"a.png"}

PrivilegeInputs == {<<"write">>}

RoleInputs == {<<"admin">>}

\* Token objects handed to setToken: with a value, with an empty value, and
\* without a value property.
TokenInputs == {Token(v) : v \in TokenValues \cup {"", Undefined}}

\* The LoginResponse objects the authentication API resolves to.
Responses ==
  {[user |-> UserA, token |-> Token(v), privileges |-> <<"read">>,
    roles |-> <<"user">>] : v \in TokenValues}

\* The LoginResponse objects handed to setLoginResponse directly, with the
\* organization the server reports.
LoginResponses ==
  {[user |-> user, token |-> Token(v), privileges |-> <<"read">>,
    roles |-> <<"user">>, organization |-> organization] :
     user \in UserInputs, v \in TokenValues, organization \in {"org1", Null}}

\* What an incoming profile can carry under each property.
IncomingProfile ==
  [id |-> "u9", username |-> "carol", nickname |-> "Caz", avatar |-> "c.png",
   name |-> "Carol", gender |-> "MALE", mobile |-> "m9",
   organization |-> Undefined]

\* The partial profiles handed to mergeUserInfo: none, one, some or all of
\* the properties present, the others being empty.
PartialProfiles ==
  {[f \in DOMAIN IncomingProfile |->
      IF f \in present THEN IncomingProfile[f]
      ELSE IF f \in {"id", "organization"} THEN Undefined ELSE ""] :
     present \in {{}, {"id"}, {"username"}, {"gender"}, {"avatar"},
                  {"name", "nickname", "mobile"}, {"avatar", "gender"},
                  DOMAIN IncomingProfile \ {"organization"}}}

\* What earlier sessions of the application can have left in the storage:
\* nothing, or the bundle of a remembered login, with or without its token.
SavedStorage ==
  [user_id |-> "u1", username |-> "alice", nickname |-> "Ali",
   password |-> "pw1", save_login |-> Some(TRUE), name |-> "Alice",
   gender |-> "FEMALE", mobile |-> "m1", avatar |-> "female.png",
   privileges |-> Some(<<"read">>), roles |-> Some(<<"user">>),
   token |-> Some(Token(SavedTokenValue)), organization |-> "org1"]

InitStorages ==
  {EmptyStorage, SavedStorage, [SavedStorage EXCEPT !.token = None]}

(***************************************************************************)
(* The request interceptor's header fix-up (HttpImpl.fixRequestHeader).    *)
(* A header set is a record over the four header names the fix-up knows;   *)
(* Undefined stands for a header that is not set.                          *)
(***************************************************************************)
DEFAULT_HTTP_HEADER_CONTENT_TYPE == "application/json;charset=UTF-8"

DEFAULT_HTTP_HEADER_ACCEPT == "application/json;charset=UTF-8"

\* config.get('app_token_value'), which validateConfig requires to be set.
ConfigAppTokenValue == "appTok"

HeaderKeys == {"contentType", "accept", "appToken", "accessToken"}

NoHeaders == [k \in HeaderKeys |-> Undefined]

\* The headers a caller passes in cfg.headers.
CallerHeaders == {NoHeaders, [NoHeaders EXCEPT !.accessToken = "callerTok"]}

\* A variant that adds the access-token header for every non-null token,
\* whatever its value.
DefaultHeadersAnyToken(accessToken) ==
  [contentType |-> DEFAULT_HTTP_HEADER_CONTENT_TYPE,
   accept |-> DEFAULT_HTTP_HEADER_ACCEPT,
   appToken |-> IF Truthy(ConfigAppTokenValue) THEN ConfigAppTokenValue
                ELSE Undefined,
   accessToken |-> IF accessToken # None
                     THEN Coalesce(TokenValueOf(accessToken), Undefined)
                     ELSE Undefined]

\* defaultHeaders as built for the value http.getAccessToken() returned.
DefaultHeaders(accessToken) ==
  [contentType |-> DEFAULT_HTTP_HEADER_CONTENT_TYPE,
   accept |-> DEFAULT_HTTP_HEADER_ACCEPT,
   appToken |-> IF Truthy(ConfigAppTokenValue) THEN ConfigAppTokenValue
                ELSE Undefined,
   accessToken |-> IF Truthy(TokenValueOf(accessToken))
                     THEN TokenValueOf(accessToken)
                     ELSE Undefined]

\* A variant of the merge in which a default replaces what the caller set.
FixRequestHeaderDefaultsWin(cfgHeaders, accessToken) ==
  LET defaultHeaders == DefaultHeaders(accessToken)
  IN  [k \in HeaderKeys |->
         IF defaultHeaders[k] # Undefined
           THEN defaultHeaders[k]
           ELSE cfgHeaders[k]]

\* The merge: a default is set only for a header cfg.headers does not have.
FixRequestHeader(cfgHeaders, accessToken) ==
  LET defaultHeaders == DefaultHeaders(accessToken)
  IN  [k \in HeaderKeys |->
         IF defaultHeaders[k] # Undefined /\ cfgHeaders[k] = Undefined
           THEN defaultHeaders[k]
           ELSE cfgHeaders[k]]

\* What a caller can put under a header of cfg.headers: nothing, a value of
\* its own, or the empty string.
CallerValues == {Undefined, "caller's value", ""}

AllCallerHeaders == [HeaderKeys -> CallerValues]

\* What http.getAccessToken() can return.
AccessTokens == {None} \cup {Some(token) : token \in TokenInputs}

\* The two ways the README wires http.getAccessToken: to the store's token,
\* or to the token cookie of the AuthStorage.
Wirings == {"store", "storage"}

GetAccessToken(wiring, m, d) == IF wiring = "store" THEN m.token ELSE d.token

(***************************************************************************)
(* The response interceptors of the transport (HttpImpl, part_005).        *)
(* What the interceptors do to the outside world is kept as a log of       *)
(* events, in the order they happen: calls of loading.clear, alert.error,  *)
(* confirm.info, http.resetAccessToken and router.push, and the settling   *)
(* of the promise the caller holds.                                        *)
(*                                                                         *)
(* The Chinese texts of the source are written here in ASCII:              *)
(*   ContactAdmin        '：请与管理员联系'                                *)
(*   UnknownErrorText    '发生未知错误：请与管理员联系'                    *)
(*   ParamsIntro         '<br><br>错误参数为：' followed by the JSON dump  *)
(*   AppSessionExpired   '应用会话已过期，请与管理员联系'                  *)
(*   AppTokenInvalid     '应用令牌错误，请与管理员联系'                    *)
(*   AppNotAuthenticated '当前应用未认证或令牌已过期，请与管理员联系'      *)
(*   NetworkErrorPrefix  '网络请求发生未知错误: '                          *)
(*   ReloginTitle        '是否重新登录'                                    *)
(*   ReloginMessage      '您尚未登录或者已经登出，请选择重新登录，...'     *)
(***************************************************************************)
ContactAdmin == ": contact the administrator"

UnknownErrorText == "unknown error: contact the administrator"

AppSessionExpired == "app session expired, contact the administrator"

AppTokenInvalid == "app token invalid, contact the administrator"

AppNotAuthenticated == "app not authenticated or token expired, contact the administrator"

NetworkErrorPrefix == "unknown network error: "

ReloginTitle == "log in again?"

ReloginMessage == "not logged in or logged out: log in again, or stay on this page"

DEFAULT_LOGIN_PAGE == "Login"

\* A text is its first line, as the sequence of the strings concatenated, and
\* the params whose JSON dump is appended after ParamsIntro, if any.
Text(line1, params) == [line1 |-> line1, params |-> params]

NoText == Text(<<>>, None)

Event(ev, text, page) == [ev |-> ev, text |-> text, page |-> page]

Say(r, ev, text, page) == [r EXCEPT !.log = Append(@, Event(ev, text, page))]

\* A structured server error (ErrorInfo): params is None when the error has
\* no params property, Some(list of [key, value]) otherwise.
ErrorInfo(type, code, params, message) ==
  [type |-> type, code |-> code, params |-> params, message |-> message]

NoError == ErrorInfo("", "", None, Undefined)

\* What a promise is settled with.
NoValue == [kind |-> "none", error |-> NoError, text |-> <<>>, data |-> Undefined]

ErrorValue(error) == [NoValue EXCEPT !.kind = "error", !.error = error]

\* The synthesized { type: 'NETWORK_ERROR', code: 'UNKNOWN', message }.
NetworkErrorValue(message) ==
  [NoValue EXCEPT !.kind = "errorInfo",
                  !.error = ErrorInfo("NETWORK_ERROR", "UNKNOWN", None, Undefined),
                  !.text = <<NetworkErrorPrefix, message>>]

Settle(r, how, value) ==
  [Say(r, how, NoText, "") EXCEPT !.pc = "settled", !.settled = how, !.value = value]

\* alert.error('错误', text).then(() => Promise.reject(value)): the alert is
\* shown now; the promise rejects once the alert's promise has resolved.
AlertThenReject(r, text, value) ==
  [Say(r, "alert", text, "") EXCEPT !.pc = "alert", !.value = value]

\* error.params[0]?.value
FirstParamValue(error) ==
  IF error.params = None \/ error.params[1] = <<>>
    THEN Undefined
    ELSE error.params[1][1].value

\* confirmLogin(http), up to the dialog being shown.
\* A variant of confirmLogin that resets the credentials as it opens the
\* dialog.
ConfirmLoginResetsAtOnce(r) ==
  [Say(Say(r, "resetAccessToken", NoText, ""),
       "confirm", Text(<<ReloginTitle, ReloginMessage>>, None), "")
     EXCEPT !.pc = "confirm"]

ConfirmLogin(r) ==
  [Say(r, "confirm", Text(<<ReloginTitle, ReloginMessage>>, None), "")
     EXCEPT !.pc = "confirm"]

\* A variant of the .then() of confirmLogin that checks the router before
\* it resets the access token.
ConfirmLoginThenCheckFirst(r, env) ==
  IF ~env.hasGetRouter \/ ~env.routerHasPush
    THEN Settle(r, "rejected", [NoValue EXCEPT !.kind = "thrown"])
    ELSE [Say(Say(r, "resetAccessToken", NoText, ""),
              "router.push", NoText, env.loginPage) EXCEPT !.pc = "push"]

\* A variant of the .then() of confirmLogin that navigates before it resets.
ConfirmLoginThenPushFirst(r, env) ==
  [Say(Say(r, "router.push", NoText, env.loginPage),
       "resetAccessToken", NoText, "")
     EXCEPT !.pc = "push"]

\* The .then() of confirmLogin: the user has affirmed the dialog.
ConfirmLoginThen(r, env) ==
  LET r1 == Say(r, "resetAccessToken", NoText, "")
  IN  IF ~env.hasGetRouter \/ ~env.routerHasPush
        THEN Settle(r1, "rejected", [NoValue EXCEPT !.kind = "thrown"])
        ELSE [Say(r1, "router.push", NoText, env.loginPage) EXCEPT !.pc = "push"]

handleUnknownError(r, error) ==
  LET line1 == IF Truthy(error.message)
                 THEN <<error.message, ContactAdmin>>
                 ELSE <<UnknownErrorText>>
  IN  AlertThenReject(r, Text(line1, error.params), ErrorValue(error))

handleKnownError(r, error) ==
  LET message == IF Truthy(error.message)
                   THEN <<error.message>>
                   ELSE <<UnknownErrorText>>
  IN  AlertThenReject(r, Text(message, None), ErrorValue(error))

\* A variant of handleResponseError that asks for a new login on every
\* SESSION_EXPIRED and INVALID_TOKEN, whatever the params say.
handleResponseErrorAlwaysRelogin(r, error) ==
  CASE error.code \in {"LOGIN_REQUIRED", "SESSION_EXPIRED", "INVALID_TOKEN"} ->
         ConfirmLogin(r)
    [] error.code = "APP_AUTHENTICATION_REQUIRED" ->
         AlertThenReject(r, Text(<<AppNotAuthenticated>>, None), ErrorValue(error))
    [] OTHER -> handleKnownError(r, error)

handleResponseError(r, error) ==
  CASE error.code = "LOGIN_REQUIRED" -> ConfirmLogin(r)
    [] error.code = "SESSION_EXPIRED" ->
         IF error.params # None /\ FirstParamValue(error) = "app"
           THEN AlertThenReject(r, Text(<<AppSessionExpired>>, None),
                                ErrorValue(error))
         ELSE IF error.params # None /\ FirstParamValue(error) = "user"
           THEN ConfirmLogin(r)
         ELSE handleUnknownError(r, error)
    [] error.code = "INVALID_TOKEN" ->
         IF error.params # None /\ FirstParamValue(error) = "app"
           THEN AlertThenReject(r, Text(<<AppTokenInvalid>>, None),
                                ErrorValue(error))
         ELSE IF error.params # None /\ FirstParamValue(error) = "user"
           THEN ConfirmLogin(r)
         ELSE handleUnknownError(r, error)
    [] error.code = "APP_AUTHENTICATION_REQUIRED" ->
         AlertThenReject(r, Text(<<AppNotAuthenticated>>, None), ErrorValue(error))
    [] OTHER -> handleKnownError(r, error)

\* Json.stringify(error) of a failure that has no message.
StringifiedFailure == "{json of the failure}"

\* A variant of responseFailInterceptor that leaves the loading indicator
\* alone when the caller set noAutoClearLoading.
responseFailInterceptorHonoursFlag(r, cfg, failure) ==
  LET r0 == [r EXCEPT !.cfg = cfg, !.failure = failure]
      r1 == IF cfg.noAutoClearLoading THEN r0
            ELSE Say(r0, "loading.clear", NoText, "")
      message == IF failure.message \in {Undefined, Null}
                   THEN StringifiedFailure
                   ELSE failure.message
  IN  IF failure.data # None
        THEN IF cfg.skipAutoErrorHandling
               THEN Settle(r1, "rejected", ErrorValue(failure.data[1]))
               ELSE handleResponseError(r1, failure.data[1])
        ELSE IF cfg.skipAutoErrorHandling
               THEN Settle(r1, "rejected", NetworkErrorValue(message))
               ELSE AlertThenReject(r1, Text(<<NetworkErrorPrefix, message>>, None),
                                    NetworkErrorValue(message))

\* A variant of responseFailInterceptor that ignores skipAutoErrorHandling.
responseFailInterceptorNeverSkips(r, cfg, failure) ==
  LET r1 == Say([r EXCEPT !.cfg = cfg, !.failure = failure],
                "loading.clear", NoText, "")
      message == IF failure.message \in {Undefined, Null}
                   THEN StringifiedFailure
                   ELSE failure.message
  IN  IF failure.data # None
        THEN handleResponseError(r1, failure.data[1])
        ELSE AlertThenReject(r1, Text(<<NetworkErrorPrefix, message>>, None),
                             NetworkErrorValue(message))

\* A variant of responseFailInterceptor that rejects a network-level failure
\* with the bare message instead of an ErrorInfo.
responseFailInterceptorBareMessage(r, cfg, failure) ==
  LET r1 == Say([r EXCEPT !.cfg = cfg, !.failure = failure],
                "loading.clear", NoText, "")
      message == IF failure.message \in {Undefined, Null}
                   THEN StringifiedFailure
                   ELSE failure.message
  IN  IF failure.data # None
        THEN IF cfg.skipAutoErrorHandling
               THEN Settle(r1, "rejected", ErrorValue(failure.data[1]))
               ELSE handleResponseError(r1, failure.data[1])
        ELSE IF cfg.skipAutoErrorHandling
               THEN Settle(r1, "rejected",
                           [NoValue EXCEPT !.kind = "message", !.text = <<message>>])
               ELSE AlertThenReject(r1, Text(<<message>>, None),
                                    [NoValue EXCEPT !.kind = "message",
                                                    !.text = <<message>>])

\* responseFailInterceptor(http, error): `failure` is the error axios hands
\* over, with failure.data = error.response?.data when that is truthy.
responseFailInterceptor(r, cfg, failure) ==
  LET r1 == Say([r EXCEPT !.cfg = cfg, !.failure = failure],
                "loading.clear", NoText, "")
      message == IF failure.message \in {Undefined, Null}
                   THEN StringifiedFailure
                   ELSE failure.message
  IN  IF failure.data # None
        THEN IF cfg.skipAutoErrorHandling
               THEN Settle(r1, "rejected", ErrorValue(failure.data[1]))
               ELSE handleResponseError(r1, failure.data[1])
        ELSE IF cfg.skipAutoErrorHandling
               THEN Settle(r1, "rejected", NetworkErrorValue(message))
               ELSE AlertThenReject(r1, Text(<<NetworkErrorPrefix, message>>, None),
                                    NetworkErrorValue(message))

\* responseSuccessInterceptor(http, response)
responseSuccessInterceptor(r, cfg, data) ==
  LET r1 == Say([r EXCEPT !.cfg = cfg, !.succeeded = TRUE],
                "loading.clear", NoText, "")
  IN  IF cfg.returnResponse
        THEN Settle(r1, "resolved",
                    [NoValue EXCEPT !.kind = "response", !.data = data])
        ELSE Settle(r1, "resolved",
                    [NoValue EXCEPT !.kind = "data", !.data = Coalesce(data, Null)])

(***************************************************************************)
(* Inputs of the transport model.                                          *)
(***************************************************************************)
\* The options of a request that the response interceptors look at.
RequestOptions ==
  [skipAutoErrorHandling : BOOLEAN, noAutoClearLoading : BOOLEAN,
   returnResponse : BOOLEAN]

NoOptions ==
  [skipAutoErrorHandling |-> FALSE, noAutoClearLoading |-> FALSE,
   returnResponse |-> FALSE]

Param(key, value) == [key |-> key, value |-> value]

\* The params a structured error can carry: none, an empty list, the entity
\* entry alone, before another entry and behind another entry.
ParamLists ==
  {None, Some(<<>>)}
    \cup {Some(<<Param("entity", e)>>) : e \in {"app", "user", "device"}}
    \cup {Some(<<Param("entity", e), Param("token", "invalid-token")>>) :
            e \in {"app", "user"}}
    \cup {Some(<<Param("reason", v), Param("entity", e)>>) :
            v \in {"timeout", "user"}, e \in {"app", "user"}}

ErrorCodes ==
  {"LOGIN_REQUIRED", "SESSION_EXPIRED", "INVALID_TOKEN",
   "APP_AUTHENTICATION_REQUIRED", "UNKNOWN_ERROR"}

StructuredErrors ==
  {ErrorInfo("AUTHENTICATION_ERROR", code, params, message) :
     code \in ErrorCodes, params \in ParamLists,
     message \in {Undefined, "the server's message"}}

NoFailure == [data |-> None, message |-> Undefined]

\* What axios rejects with: a response carrying a structured error, or a
\* failure without response data, with or without a message.
Failures ==
  {[data |-> Some(e), message |-> "Request failed with status code 401"] :
     e \in StructuredErrors}
    \cup {[data |-> None, message |-> m] : m \in {"Network Error", "", Undefined}}

\* The bodies of successful responses.
ResponseBodies == {"body", Undefined}

\* The application's router accessor: validateConfig has required
\* http.getRouter, and the router it returns has push().
\* config.get('login_page', DEFAULT_LOGIN_PAGE) is the default or the page
\* the application configured.
Environments ==
  {[hasGetRouter |-> TRUE, routerHasPush |-> TRUE, loginPage |-> page] :
     page \in {DEFAULT_LOGIN_PAGE, "SignIn"}}

(***************************************************************************)
(* transformResponseData(data, headers).  A response body is a string, an  *)
(* object (a Blob, an ArrayBuffer, an already parsed value), null or       *)
(* undefined; a Content-Type is the sequence of its parts, empty when the  *)
(* response has no such header.                                            *)
(***************************************************************************)
JSON_CONTENT_TYPE_PREFIX == "application/json"

Str(text) == [kind |-> "string", text |-> text]

NotStr(kind) == [kind |-> kind, text |-> ""]

\* The texts Json.parse accepts; it throws a SyntaxError for the others.
JsonTexts == {"{\"id\":1}", "[1,2]", "12345678901234567890"}

BodyTexts == JsonTexts \cup {"", "not json", " "}

Bodies ==
  {Str(text) : text \in BodyTexts}
    \cup {NotStr(kind) : kind \in {"object", "null", "undefined"}}

ContentTypes ==
  {<<>>, <<"application/json">>, <<"application/json", ";charset=UTF-8">>,
   <<"Application/JSON">>, <<"text/plain">>, <<"application/octet-stream">>}

\* contentType?.startsWith(JSON_CONTENT_TYPE_PREFIX)
StartsWithJson(contentType) ==
  contentType # <<>> /\ contentType[1] = JSON_CONTENT_TYPE_PREFIX

\* Json.parse(text)
JsonParse(text) ==
  IF text \in JsonTexts
    THEN [kind |-> "parsed", text |-> text]
    ELSE [kind |-> "thrown", text |-> text]

\* A variant of transformResponseData that tests the length together with
\* the content type and so hands an empty body back as it came.
transformResponseDataNoEmptyCase(data, contentType) ==
  IF data.kind = "string" /\ data.text # "" /\ StartsWithJson(contentType)
    THEN [out |-> JsonParse(data.text), log |-> <<data.text>>]
    ELSE [out |-> data, log |-> <<>>]

\* transformResponseData(data, headers): what it returns (or throws) and the
\* texts it has handed to Json.parse.
transformResponseData(data, contentType) ==
  IF data.kind = "string"
    THEN IF data.text = ""
           THEN [out |-> NotStr("null"), log |-> <<>>]
           ELSE IF StartsWithJson(contentType)
             THEN [out |-> JsonParse(data.text), log |-> <<data.text>>]
             ELSE [out |-> data, log |-> <<>>]
    ELSE [out |-> data, log |-> <<>>]

(***************************************************************************)
(* validateConfig(http) and requestConfigInterceptor(http, cfg).  A        *)
(* configuration is the set of the required items that are present, the    *)
(* set of the optional settings that have a value, and, as history,        *)
(* whether an earlier request has passed the validation.                   *)
(***************************************************************************)
\* The collaborators validateConfig requires, in the order it tests them.
Collaborators ==
  <<"loading", "alert", "confirm", "getAccessToken", "resetAccessToken",
    "getRouter">>

\* The settings validateConfig requires, in the order it tests them.
RequiredSettings == <<"api_base_url", "app_token_value">>

RequiredItems ==
  {Collaborators[i] : i \in 1..Len(Collaborators)}
    \cup {RequiredSettings[i] : i \in 1..Len(RequiredSettings)}

\* The settings that get their default written back before api_base_url is
\* tested, and the one that gets it after app_token_value has passed.
EarlyDefaults ==
  {"http_header_content_type", "http_header_accept", "http_timeout",
   "app_token_name", "access_token_name"}

LateDefaults == {"login_page"}

\* The first item of `items` that is not in `present`, "" when there is none.
FirstMissing(items, present) ==
  IF \A i \in 1..Len(items) : items[i] \in present
    THEN ""
    ELSE items[CHOOSE i \in 1..Len(items) :
                 /\ items[i] \notin present
                 /\ \A j \in 1..(i - 1) : items[j] \in present]

\* The application after its set-up: everything required is in place and no
\* optional setting has been given a value.
Configured == [present |-> RequiredItems, set |-> {}, passed |-> FALSE]

\* A variant of validateConfig that validates once and trusts the result of
\* an earlier validation ever after.
validateConfigOnce(c) ==
  IF c.passed
    THEN [thrown |-> "", c |-> c]
    ELSE IF FirstMissing(Collaborators, c.present) # ""
      THEN [thrown |-> FirstMissing(Collaborators, c.present), c |-> c]
      ELSE LET c1 == [c EXCEPT !.set = @ \cup EarlyDefaults]
           IN  IF FirstMissing(RequiredSettings, c.present) # ""
                 THEN [thrown |-> FirstMissing(RequiredSettings, c.present),
                       c |-> c1]
                 ELSE [thrown |-> "",
                       c |-> [c1 EXCEPT !.set = @ \cup LateDefaults]]

\* validateConfig(http): the item whose absence made it throw ("" when it
\* returned true) and the configuration it leaves.
validateConfig(c) ==
  IF FirstMissing(Collaborators, c.present) # ""
    THEN [thrown |-> FirstMissing(Collaborators, c.present), c |-> c]
    ELSE LET c1 == [c EXCEPT !.set = @ \cup EarlyDefaults]
         IN  IF FirstMissing(RequiredSettings, c.present) # ""
               THEN [thrown |-> FirstMissing(RequiredSettings, c.present),
                     c |-> c1]
               ELSE [thrown |-> "",
                     c |-> [c1 EXCEPT !.set = @ \cup LateDefaults]]

\* requestConfigInterceptor(http, cfg): validateConfig is its first
\* statement; when that throws nothing else runs and no configuration is
\* returned for axios to dispatch.
requestConfigInterceptor(c) ==
  LET v == validateConfig(c)
  IN  [thrown |-> v.thrown,
       log |-> IF v.thrown = "" THEN <<"validateConfig", "dispatch">>
               ELSE <<"validateConfig">>,
       c |-> [v.c EXCEPT !.passed = @ \/ v.thrown = ""]]

(***************************************************************************)
(* The state machine.                                                      *)
(***************************************************************************)
(***************************************************************************)
(* Two AuthStorage instances over the storage of one browser origin.  A    *)
(* key is the text `${appCode}.${name}`, kept as its pieces: the runs      *)
(* between the dots, and the dots.                                         *)
(***************************************************************************)
AppCodes == {<<"app1">>, <<"app2">>, <<"app1", ".", "token">>}

Items == DOMAIN EmptyStorage

\* A variant of the constructor that leaves the keys at the bare names.
KeyOfNoAppCode(appCode, item) == <<item>>

\* this.KEY_... = `${appCode}.name`
KeyOf(appCode, item) == appCode \o <<".", item>>

Keys == {KeyOf(appCode, item) : appCode \in AppCodes, item \in Items}

\* What the instance constructed with appCode loads, item by item.
ViewOf(data, appCode) ==
  [item \in Items |-> data[KeyOf(appCode, item)]]

\* The storage after the instance has set or removed the keys of the items
\* that the operation changed from d to e.
WriteThrough(data, appCode, d, e) ==
  [key \in Keys |->
     IF \E item \in Items : key = KeyOf(appCode, item) /\ e[item] # d[item]
       THEN e[CHOOSE item \in Items :
                key = KeyOf(appCode, item) /\ e[item] # d[item]]
       ELSE data[key]]

FreshBrowser(first, second) ==
  [codes |-> <<first, second>>,
   last |-> 0,
   data |-> [key \in Keys |-> EmptyStorage[key[Len(key)]]]]

\* Store and remove operations of an AuthStorage: single keys, the user
\* profile, the whole login bundle.
StorageOps ==
  {"storePassword", "removePassword", "storeSaveLogin", "storeToken",
   "removeToken", "storeUserInfo", "removeLoginResponse"}

ApplyStorageOp(d, op) ==
  CASE op = "storePassword" -> StorePassword(d, "pw1")
    [] op = "removePassword" -> RemovePassword(d)
    [] op = "storeSaveLogin" -> StoreSaveLogin(d, TRUE)
    [] op = "storeToken" -> StoreToken(d, Token("t1"))
    [] op = "removeToken" -> AuthRemoveToken(d)
    [] op = "storeUserInfo" -> StoreUserInfo(d, Some(UserA))
    [] op = "removeLoginResponse" -> RemoveLoginResponse(d)

VARIABLES
  store,        \* the in-memory state of the BasicUserStore
  authStorage,  \* the contents of its AuthStorage
  run,          \* the handler running in the current turn and what is left of it
  login,        \* the login call in flight, if any
  logout,       \* whether a logout call is in flight
  load,         \* the loadTokenFromAuthStorage call in progress, if any
  req,          \* the request whose configuration the interceptor has just fixed
  cleared,      \* history: a token removal has run and no login succeeded since
  lt,           \* the loadToken call in progress, if any
  resp,         \* the response the response interceptors are handling, if any
  conf,         \* what the application has configured for the transport
  call,         \* the call under observation: its arguments, effects, result
  browser       \* the browser's storage under two AuthStorage instances

vars ==
  <<store, authStorage, run, login, logout, load, req, cleared, lt, resp, conf,
    call, browser>>

W == [m |-> store, d |-> authStorage]

Commit(w) == store' = w.m /\ authStorage' = w.d

NoArgs == [username |-> "", password |-> "", mobile |-> "", openId |-> "",
           saveLogin |-> FALSE]

IdleRun == [in |-> "none", todo |-> <<>>, a |-> NoArgs, had |-> FALSE]

IdleLogin == [st |-> "idle", kind |-> "none", openId |-> ""]

IdleReq == [issued |-> FALSE, cfg |-> NoHeaders, got |-> None, headers |-> NoHeaders]

\* The loadToken call: where it is, the calls it has made and how they ended,
\* in order, and what it returned.
IdleLt ==
  [pc |-> "idle", log |-> <<>>, ret |-> [kind |-> "none", token |-> None]]

IdleResp ==
  [pc |-> "idle", cfg |-> NoOptions, failure |-> NoFailure, succeeded |-> FALSE,
   log |-> <<>>, settled |-> "pending", value |-> NoValue]

\* No call is under observation.
IdleCall == [op |-> "none", in |-> <<>>, out |-> <<>>, log |-> <<>>]

\* The loadTokenFromAuthStorage call: where it is, what it read before its
\* await, how the check ended; login is the token of a login that succeeded
\* while the call was waiting for the check, if there was one.
IdleLoad ==
  [pc |-> "idle", uid |-> Undefined, tok |-> None,
   outcome |-> [kind |-> "none", value |-> Undefined],
   valid |-> [settled |-> "none", value |-> FALSE], ret |-> "none",
   login |-> None]

\* No handler is running: a new turn of the event loop can start.
Idle ==
  /\ run.todo = <<>>
  /\ load.pc # "return"
  /\ ~req.issued
  /\ lt.pc # "return"
  /\ call.op = "none"

\* Whether a token is held, in memory or in the cookie.
HasToken == store.token # None \/ authStorage.token # None

Init ==
  /\ authStorage \in InitStorages
  /\ store = Construct(authStorage)
  /\ run = IdleRun
  /\ login = IdleLogin
  /\ logout = "idle"
  /\ load = IdleLoad
  /\ req = IdleReq
  /\ cleared = FALSE
  /\ lt = IdleLt
  /\ resp = IdleResp
  /\ conf = Configured
  /\ call = IdleCall
  /\ browser = FreshBrowser(<<"app1">>, <<"app2">>)

(***************************************************************************)
(* Setters called directly by the application, each in one turn.           *)
(***************************************************************************)
Others == <<run, login, logout, load, req, cleared, lt, resp, conf, call, browser>>

SetUserInfoCall(user) ==
  Idle /\ Commit(SetUserInfo(W, user)) /\ UNCHANGED Others

SetUserIdCall(userId) ==
  Idle /\ Commit(SetUserId(W, userId)) /\ UNCHANGED Others

SetUsernameCall(username) ==
  Idle /\ Commit(SetUsername(W, username)) /\ UNCHANGED Others

SetPasswordCall(password) ==
  Idle /\ Commit(SetPassword(W, password)) /\ UNCHANGED Others

SetMobileCall(mobile) ==
  Idle /\ Commit(SetMobile(W, mobile)) /\ UNCHANGED Others

SetAvatarCall(avatar) ==
  Idle /\ Commit(SetAvatar(W, avatar)) /\ UNCHANGED Others

SetSaveLoginCall(saveLogin) ==
  Idle /\ Commit(SetSaveLogin(W, saveLogin)) /\ UNCHANGED Others

SetTokenCall(token) ==
  Idle /\ Commit(SetToken(W, token)) /\ UNCHANGED Others

RemoveTokenCall ==
  /\ Idle
  /\ Commit(RemoveToken(W))
  /\ cleared' = TRUE
  /\ UNCHANGED <<run, login, logout, load, req, lt, resp, conf, call, browser>>

SetPrivilegesCall(privileges) ==
  Idle /\ Commit(SetPrivileges(W, privileges)) /\ UNCHANGED Others

SetRolesCall(roles) ==
  Idle /\ Commit(SetRoles(W, roles)) /\ UNCHANGED Others

(***************************************************************************)
(* Handlers whose statements run one at a time within a turn, so that the  *)
(* order of their effects is part of the model.  A body is the sequence of *)
(* the handler's statements; Step runs the next one; no other handler      *)
(* starts before the body is finished.                                     *)
(***************************************************************************)
\* A variant of resetToken that resets the state before removing the token.
ResetTokenBodyResetFirst == <<"resetState", "removeToken">>

\* A variant of loginByUsername that calls the API without removing the token.
LoginByUsernameBodyKeepToken ==
  <<"setSaveLogin", "setUsername", "setPassword", "callLogin">>

\* resetToken(): this.removeToken(); this.resetState();
ResetTokenBody == <<"removeToken", "resetState">>

\* The continuation of logout(): this.removeToken(); this.resetState();
LogoutThenBody == <<"removeToken", "resetState">>

\* loginByUsername, up to the call of the authentication API.
LoginByUsernameBody ==
  <<"setSaveLogin", "setUsername", "setPassword", "removeToken", "callLogin">>

\* loginByMobile, up to the call of the authentication API.
LoginByMobileBody == <<"setSaveLogin", "setMobile", "removeToken", "callLogin">>

\* loginByOpenId, up to the call of the authentication API.
LoginByOpenIdBody == <<"removeToken", "callLogin">>

\* The effect of one statement on the store and its storage.
Exec(w, stmt, a) ==
  CASE stmt = "setSaveLogin" -> SetSaveLogin(w, a.saveLogin)
    [] stmt = "setUsername" -> SetUsername(w, a.username)
    [] stmt = "setPassword" -> SetPassword(w, a.password)
    [] stmt = "setMobile" -> SetMobile(w, a.mobile)
    [] stmt = "removeToken" -> RemoveToken(w)
    [] stmt = "resetState" -> ResetState(w)
    [] OTHER -> w

Begin(handler, body, a) ==
  run' = [in |-> handler, todo |-> body, a |-> a, had |-> HasToken]

ResetTokenCall ==
  /\ Idle
  /\ Begin("resetToken", ResetTokenBody, NoArgs)
  /\ UNCHANGED <<store, authStorage, login, logout, load, req, cleared, lt, resp, conf, call, browser>>

LoginByUsernameCall(username, password, saveLogin) ==
  /\ Idle /\ login.st = "idle"
  /\ Begin("loginByUsername", LoginByUsernameBody,
           [NoArgs EXCEPT !.username = username, !.password = password,
                          !.saveLogin = saveLogin])
  /\ UNCHANGED <<store, authStorage, login, logout, load, req, cleared, lt, resp, conf, call, browser>>

LoginByMobileCall(mobile, saveLogin) ==
  /\ Idle /\ login.st = "idle"
  /\ Begin("loginByMobile", LoginByMobileBody,
           [NoArgs EXCEPT !.mobile = mobile, !.saveLogin = saveLogin])
  /\ UNCHANGED <<store, authStorage, login, logout, load, req, cleared, lt, resp, conf, call, browser>>

LoginByOpenIdCall(openId) ==
  /\ Idle /\ login.st = "idle"
  /\ Begin("loginByOpenId", LoginByOpenIdBody, [NoArgs EXCEPT !.openId = openId])
  /\ UNCHANGED <<store, authStorage, login, logout, load, req, cleared, lt, resp, conf, call, browser>>

\* The next statement of the running handler.
NextStmt == IF run.todo = <<>> THEN "none" ELSE Head(run.todo)

Step ==
  /\ run.todo # <<>>
  /\ Commit(Exec(W, NextStmt, run.a))
  /\ login' = IF NextStmt = "callLogin"
                THEN [st |-> "pending", kind |-> run.in, openId |-> run.a.openId]
                ELSE login
  /\ run' = IF Len(run.todo) = 1 THEN IdleRun ELSE [run EXCEPT !.todo = Tail(@)]
  /\ cleared' = (cleared \/ NextStmt = "removeToken")
  /\ UNCHANGED <<logout, load, req, lt, resp, conf, call, browser>>

(***************************************************************************)
(* The authentication API answers a login or a logout call.                *)
(***************************************************************************)
\* The .then() of the three login variants.
LoginThen(w, kind, openId, response) ==
  IF kind = "loginByOpenId"
    THEN SetLoginResponse(
           SetOpenId(w, ConfigSocialNetwork, ConfigAppId, openId), response)
    ELSE SetLoginResponse(w, response)

LoginResolve(response) ==
  /\ Idle /\ login.st = "pending"
  /\ Commit(LoginThen(W, login.kind, login.openId, response))
  /\ login' = IdleLogin
  /\ cleared' = FALSE
  /\ load' = IF load.pc = "check"
               THEN [load EXCEPT !.login = Some(response.token)]
               ELSE load
  /\ UNCHANGED <<run, logout, req, lt, resp, conf, call, browser>>

\* The promise of the authentication API rejects.  The login attached a
\* fulfilment handler only, so the promise it returned rejects with the same
\* error and nothing of the store runs.
LoginReject ==
  /\ Idle /\ login.st = "pending"
  /\ login' = IdleLogin
  /\ call' = [op |-> login.kind, in |-> <<>>,
              out |-> [settled |-> "rejected", value |-> <<"error of the API">>],
              log |-> <<>>]
  /\ UNCHANGED <<store, authStorage, run, logout, load, req, cleared, lt, resp, conf, browser>>

LogoutCall ==
  /\ Idle /\ logout = "idle"
  /\ logout' = "pending"
  /\ UNCHANGED <<store, authStorage, run, login, load, req, cleared, lt, resp, conf, call, browser>>

LogoutResolve ==
  /\ Idle /\ logout = "pending"
  /\ logout' = "idle"
  /\ Begin("logout", LogoutThenBody, NoArgs)
  /\ UNCHANGED <<store, authStorage, login, load, req, cleared, lt, resp, conf, call, browser>>

\* A variant in which the handler of logout() also runs on a rejection.
LogoutRejectRunsHandler ==
  /\ Idle /\ logout = "pending"
  /\ logout' = "idle"
  /\ Begin("logout", LogoutThenBody, NoArgs)
  /\ call' = [op |-> "logout", in |-> <<>>,
              out |-> [settled |-> "rejected", value |-> <<"error of the API">>],
              log |-> <<>>]
  /\ UNCHANGED <<store, authStorage, login, load, req, cleared, lt, resp, conf, browser>>

\* The API rejects the logout: .then(cb) has no rejection handler, so the
\* promise that logout() returned rejects with the API's error.
LogoutReject ==
  /\ Idle /\ logout = "pending"
  /\ logout' = "idle"
  /\ call' = [op |-> "logout", in |-> <<>>,
              out |-> [settled |-> "rejected", value |-> <<"error of the API">>],
              log |-> <<>>]
  /\ UNCHANGED <<store, authStorage, run, login, load, req, cleared, lt, resp, conf, browser>>

(***************************************************************************)
(* loadTokenFromAuthStorage(): the part before `await isTokenValid(...)`,  *)
(* then, once checkToken has ended, the part after it.  In the state       *)
(* load.pc = "return" the call has just returned load.ret and nothing else *)
(* has run yet.                                                            *)
(***************************************************************************)
\* The hydration of user info, password and save flag (lines 518-532).
LoadHydrate(w) ==
  LET user == LoadUserInfo(w.d)
      w1 == IF Truthy(user.username) THEN SetUserInfo(w, user) ELSE w
      password == w1.d.password
      w2 == IF Truthy(password) THEN SetPassword(w1, password) ELSE w1
      saveLogin == w2.d.save_login
      w3 == IF saveLogin # None /\ saveLogin[1]
              THEN SetSaveLogin(w2, saveLogin[1])
              ELSE w2
  IN  w3

\* A variant of the valid branch that commits the user id but not the token.
LoadThenUserIdOnly(w, uid, tok, valid) ==
  IF valid.settled # "resolved" THEN w
  ELSE IF valid.value THEN SetUserId(w, uid)
  ELSE [w EXCEPT !.d = RemoveLoginResponse(w.d)]

\* The part after the await (lines 536-544), given what isTokenValid settled to.
LoadThen(w, uid, tok, valid) ==
  IF valid.settled # "resolved" THEN w
  ELSE IF valid.value THEN SetToken(SetUserId(w, uid), tok[1])
  ELSE [w EXCEPT !.d = RemoveLoginResponse(w.d)]

\* What the call returns: "true", "false", or "rejected" when it throws.
LoadResult(valid) ==
  IF valid.settled # "resolved" THEN "rejected"
  ELSE IF valid.value THEN "true" ELSE "false"

\* loadTokenFromAuthStorage() from its entry to its await or early return.
LoadStart ==
  /\ load.pc = "idle"
  /\ LET uid == LoadUserInfo(authStorage).id
         w1 == LoadHydrate(W)
         tok == w1.d.token
     IN  /\ Commit(w1)
         /\ load' = IF Truthy(uid) /\ Truthy(TokenValueOf(tok))
                      THEN [IdleLoad EXCEPT !.pc = "check", !.uid = uid, !.tok = tok]
                      ELSE [IdleLoad EXCEPT !.pc = "return", !.uid = uid,
                                            !.tok = tok, !.ret = "false"]

LoadTokenFromAuthStorageCall ==
  /\ Idle /\ lt.pc = "idle"
  /\ LoadStart
  /\ UNCHANGED <<run, login, logout, req, cleared, lt, resp, conf, call, browser>>

CheckTokenSettles(outcome) ==
  /\ Idle /\ load.pc = "check"
  /\ Commit(LoadThen(W, load.uid, load.tok, IsTokenValid(outcome)))
  /\ load' = [load EXCEPT !.pc = "return", !.outcome = outcome,
                          !.valid = IsTokenValid(outcome),
                          !.ret = LoadResult(IsTokenValid(outcome))]
  /\ UNCHANGED <<run, login, logout, req, cleared, lt, resp, conf, call, browser>>

(***************************************************************************)
(* loadToken(): the device source, then the AuthStorage source, then       *)
(* refreshLoginInfo().  lt.log records the calls it makes and how each     *)
(* ends.  In the state lt.pc = "return" the call has just returned lt.ret  *)
(* and nothing else has run yet.                                           *)
(***************************************************************************)
\* A variant of loadToken that returns the token without refreshing the
\* login information.
LoadTokenNextNoRefresh(source, ok) ==
  IF ok THEN "returnToken"
  ELSE IF source = "device" THEN "storage" ELSE "returnNull"

\* What loadToken does once a source has answered: `a || b` evaluates b only
\* if a is falsy; a truthy answer leads to refreshLoginInfo, two falsy ones
\* to `return null`.
LoadTokenNext(source, ok) ==
  IF ok THEN "refresh"
  ELSE IF source = "device" THEN "storage" ELSE "returnNull"

\* The log entry for the answer of a source.
Answer(source, ok) ==
  IF source = "device"
    THEN IF ok THEN "device:true" ELSE "device:false"
    ELSE IF ok THEN "storage:true" ELSE "storage:false"

\* lt after `source` has answered `ok`, given the token the store holds.
LtAfter(source, ok, token) ==
  LET answered == Append(lt.log, Answer(source, ok))
      next == LoadTokenNext(source, ok)
  IN  CASE next = "refresh" ->
             [lt EXCEPT !.pc = "refresh",
                        !.log = Append(answered, "refreshLoginInfo")]
        [] next = "storage" ->
             [lt EXCEPT !.pc = "storage",
                        !.log = Append(answered, "loadTokenFromAuthStorage")]
        [] next = "returnToken" ->
             [lt EXCEPT !.pc = "return", !.log = answered,
                        !.ret = [kind |-> "token", token |-> token]]
        [] OTHER ->
             [lt EXCEPT !.pc = "return", !.log = answered,
                        !.ret = [kind |-> "null", token |-> None]]

LoadTokenCall ==
  /\ Idle /\ lt.pc = "idle" /\ load.pc = "idle"
  /\ lt' = [IdleLt EXCEPT !.pc = "device", !.log = <<"loadTokenFromDevice">>]
  /\ UNCHANGED <<store, authStorage, run, login, logout, load, req, cleared, resp, conf, call, browser>>

\* loadTokenFromDevice() answers: false by default, anything in a subclass.
DeviceSettles(ok) ==
  /\ Idle /\ lt.pc = "device"
  /\ lt' = LtAfter("device", ok, store.token)
  /\ IF LoadTokenNext("device", ok) = "storage"
       THEN LoadStart
       ELSE UNCHANGED <<store, authStorage, load>>
  /\ UNCHANGED <<run, login, logout, req, cleared, resp, conf, call, browser>>

\* loadTokenFromAuthStorage() returns to its caller, which is loadToken when
\* lt.pc = "storage".
LoadReturn ==
  /\ load.pc = "return"
  /\ load' = IdleLoad
  /\ lt' = IF lt.pc # "storage" THEN lt
           ELSE IF load.ret = "rejected"
             THEN [lt EXCEPT !.pc = "return",
                             !.log = Append(@, "storage:rejected"),
                             !.ret = [kind |-> "rejected", token |-> None]]
           ELSE LtAfter("storage", load.ret = "true", store.token)
  /\ UNCHANGED <<store, authStorage, run, login, logout, req, cleared, resp, conf, call, browser>>

\* getLoginInfo() resolves: the .then() of refreshLoginInfo runs, and then
\* loadToken returns this.token.
RefreshResolves(response) ==
  /\ Idle /\ lt.pc = "refresh"
  /\ Commit(SetLoginResponse(W, response))
  /\ lt' = [lt EXCEPT !.pc = "return",
                      !.log = Append(@, "refreshLoginInfo:done"),
                      !.ret = [kind |-> "token",
                               token |-> SetLoginResponse(W, response).m.token]]
  /\ UNCHANGED <<run, login, logout, load, req, cleared, resp, conf, call, browser>>

\* getLoginInfo() rejects: so does refreshLoginInfo, and so does loadToken.
RefreshRejects ==
  /\ Idle /\ lt.pc = "refresh"
  /\ lt' = [lt EXCEPT !.pc = "return",
                      !.log = Append(@, "refreshLoginInfo:failed"),
                      !.ret = [kind |-> "rejected", token |-> None]]
  /\ UNCHANGED <<store, authStorage, run, login, logout, load, req, cleared, resp, conf, call, browser>>

LoadTokenReturn ==
  /\ lt.pc = "return"
  /\ lt' = IdleLt
  /\ UNCHANGED <<store, authStorage, run, login, logout, load, req, cleared, resp, conf, call, browser>>

(***************************************************************************)
(* An outbound request: the request interceptor fixes its headers with the *)
(* token the credential getter returns at that moment.  In the state       *)
(* req.issued the interceptor has just returned and nothing else has run.  *)
(***************************************************************************)
Request(wiring, cfgHeaders) ==
  /\ Idle
  /\ req' = [issued |-> TRUE, cfg |-> cfgHeaders,
             got |-> GetAccessToken(wiring, store, authStorage),
             headers |-> FixRequestHeader(
                           cfgHeaders,
                           GetAccessToken(wiring, store, authStorage))]
  /\ UNCHANGED <<store, authStorage, run, login, logout, load, cleared, lt, resp, conf, call, browser>>

RequestDone ==
  /\ req.issued
  /\ req' = IdleReq
  /\ UNCHANGED <<store, authStorage, run, login, logout, load, cleared, lt, resp, conf, call, browser>>

(***************************************************************************)
(* A response arrives and the response interceptors handle it; the alert,  *)
(* the confirmation dialog and the navigation end later, each in a turn of *)
(* its own.                                                                *)
(***************************************************************************)
NotResp ==
  <<store, authStorage, run, login, logout, load, req, cleared, lt, conf, call, browser>>

ResponseSucceeds(cfg, data) ==
  /\ resp.pc = "idle"
  /\ resp' = responseSuccessInterceptor(IdleResp, cfg, data)
  /\ UNCHANGED NotResp

ResponseFails(cfg, failure) ==
  /\ resp.pc = "idle"
  /\ resp' = responseFailInterceptor(IdleResp, cfg, failure)
  /\ UNCHANGED NotResp

\* The user closes the alert: alert.error()'s promise resolves and its
\* .then() rejects with the error.
AlertClosed ==
  /\ resp.pc = "alert"
  /\ resp' = Settle(resp, "rejected", resp.value)
  /\ UNCHANGED NotResp

\* The user chooses to log in again: confirm.info()'s promise resolves.
ConfirmAffirmed(env) ==
  /\ resp.pc = "confirm"
  /\ resp' = ConfirmLoginThen(resp, env)
  /\ UNCHANGED NotResp

\* The user gives up: confirm.info()'s promise rejects, .then() is skipped.
ConfirmCancelled ==
  /\ resp.pc = "confirm"
  /\ resp' = Settle(resp, "rejected", [NoValue EXCEPT !.kind = "cancelled"])
  /\ UNCHANGED NotResp

\* router.push()'s promise settles, and with it the promise of the request.
PushSettles(ok) ==
  /\ resp.pc = "push"
  /\ resp' = IF ok
               THEN Settle(resp, "resolved", [NoValue EXCEPT !.kind = "navigation"])
               ELSE Settle(resp, "rejected", [NoValue EXCEPT !.kind = "navigation"])
  /\ UNCHANGED NotResp

ResponseDone ==
  /\ resp.pc = "settled"
  /\ resp' = IdleResp
  /\ UNCHANGED NotResp

(***************************************************************************)
(* The application changes the transport's configuration between requests; *)
(* each request runs the request interceptor.                              *)
(***************************************************************************)
NotConf ==
  <<store, authStorage, run, login, logout, load, req, cleared, lt, resp,
    browser>>

NotCall ==
  <<store, authStorage, run, login, logout, load, req, cleared, lt, resp, conf, browser>>

\* loading.setImpl(impl), http.getRouter = ..., config.set(key, value), ...
Provide(item) ==
  /\ call.op = "none"
  /\ item \notin conf.present
  /\ conf' = [conf EXCEPT !.present = @ \cup {item}]
  /\ UNCHANGED <<NotConf, call, browser>>

\* loading.setImpl(null), delete http.getRouter, config.remove(key), ...
Withdraw(item) ==
  /\ call.op = "none"
  /\ item \in conf.present
  /\ conf' = [conf EXCEPT !.present = @ \ {item}]
  /\ UNCHANGED <<NotConf, call, browser>>

RequestConfigInterceptorCall ==
  /\ call.op = "none"
  /\ LET r == requestConfigInterceptor(conf)
     IN  /\ conf' = r.c
         /\ call' = [op |-> "request", in |-> conf, out |-> r.thrown,
                     log |-> r.log]
  /\ UNCHANGED NotConf

\* The call under observation is over.
CallDone ==
  /\ call.op # "none"
  /\ call' = IdleCall
  /\ UNCHANGED NotCall

(***************************************************************************)
(* A batch of overlapping requests: all are in flight before the first     *)
(* response arrives, and axios runs the interceptor of each response when  *)
(* it arrives, in any order.  call.in holds the options of the requests in *)
(* the order of issue, call.out the state of each request's response, and  *)
(* call.log the events of the whole batch, each with its request.  The     *)
(* caller follows the advice for one indicator over the batch: all but     *)
(* the last-issued request set noAutoClearLoading.                         *)
(***************************************************************************)
MaxBatch == 2

BatchOptions ==
  {cfgs \in UNION {[1..n -> RequestOptions] : n \in 2..MaxBatch} :
     \A i \in DOMAIN cfgs :
       /\ cfgs[i].noAutoClearLoading = (i < Len(cfgs))
       /\ ~cfgs[i].returnResponse}

\* The failures whose handling ends with an alert or with a plain
\* rejection; the re-login dialog is left to the single response.
BatchFailures ==
  {failure \in Failures :
     responseFailInterceptor(IdleResp, NoOptions, failure).pc # "confirm"}

\* The events of request i, by name.
Tagged(i, r) == [k \in DOMAIN r.log |-> [req |-> i, ev |-> r.log[k].ev]]

\* What the batch keeps of a response: where its handling is and how its
\* promise ended.
Outcome(r) == [pc |-> r.pc, succeeded |-> r.succeeded, settled |-> r.settled]

BatchIssue(cfgs) ==
  /\ Idle /\ resp.pc = "idle"
  /\ call' = [op |-> "batch", in |-> cfgs,
              out |-> [i \in DOMAIN cfgs |-> Outcome(IdleResp)], log |-> <<>>]
  /\ UNCHANGED NotCall

BatchSucceeds(i, data) ==
  /\ call.op = "batch" /\ i \in DOMAIN call.out /\ call.out[i].pc = "idle"
  /\ LET r == responseSuccessInterceptor(IdleResp, call.in[i], data)
     IN  call' = [call EXCEPT !.out[i] = Outcome(r), !.log = @ \o Tagged(i, r)]
  /\ UNCHANGED NotCall

BatchFails(i, failure) ==
  /\ call.op = "batch" /\ i \in DOMAIN call.out /\ call.out[i].pc = "idle"
  /\ LET r == responseFailInterceptor(IdleResp, call.in[i], failure)
     IN  call' = [call EXCEPT !.out[i] = Outcome(r), !.log = @ \o Tagged(i, r)]
  /\ UNCHANGED NotCall

\* The user closes the alert of request i.
BatchAlertClosed(i) ==
  /\ call.op = "batch" /\ i \in DOMAIN call.out /\ call.out[i].pc = "alert"
  /\ LET r == Settle(IdleResp, "rejected", NoValue)
     IN  call' = [call EXCEPT !.out[i] = [Outcome(r) EXCEPT !.succeeded = FALSE],
                              !.log = @ \o Tagged(i, r)]
  /\ UNCHANGED NotCall

(***************************************************************************)
(* Calls of the helpers that have no state of their own.                   *)
(***************************************************************************)
NotCallConf ==
  <<store, authStorage, run, login, logout, load, req, cleared, lt, resp, conf, browser>>

FixRequestHeaderCall(cfgHeaders, accessToken) ==
  /\ call.op = "none"
  /\ call' = [op |-> "fixRequestHeader",
              in |-> [headers |-> cfgHeaders, accessToken |-> accessToken],
              out |-> FixRequestHeader(cfgHeaders, accessToken),
              log |-> <<>>]
  /\ UNCHANGED NotCallConf

\* The live profile as mergeUserInfo finds it: ensureUserExist() first.
LiveUser == EnsureUserExist(W).m.user[1]

SetLoginResponseCall(response) ==
  /\ Idle
  /\ call.op = "none"
  /\ Commit(SetLoginResponse(W, response))
  /\ call' = [op |-> "setLoginResponse", in |-> response, out |-> <<>>,
              log |-> <<>>]
  /\ UNCHANGED <<run, login, logout, load, req, cleared, lt, resp, conf, browser>>

MergeUserInfoCall(info) ==
  /\ Idle
  /\ call.op = "none"
  /\ Commit(MergeUserInfo(W, info))
  /\ call' = [op |-> "mergeUserInfo", in |-> [info |-> info, user |-> LiveUser],
              out |-> <<>>, log |-> <<>>]
  /\ UNCHANGED <<run, login, logout, load, req, cleared, lt, resp, conf, browser>>

\* How the application has set up the router accessor: http.getRouter may be
\* missing, and what it returns may have no push().
RouterSetups ==
  [hasGetRouter : BOOLEAN, routerHasPush : BOOLEAN,
   loginPage : {DEFAULT_LOGIN_PAGE, "SignIn"}]

\* The store's confirmLogin() in progress.
DialogOpen ==
  [pc |-> "confirm", answer |-> "none", thrown |-> FALSE,
   settled |-> "pending", error |-> "", page |-> ""]

\* A variant of the .then() of the store's confirmLogin that navigates
\* before it resets the token.
StoreConfirmLoginThenPushFirst(c) ==
  [c EXCEPT !.log = @ \o <<"http.getRouter", "router.push", "resetToken">>,
            !.out.answer = "affirmed", !.out.pc = "push",
            !.out.page = c.in.loginPage]

\* A variant that skips the navigation, and resolves, when the router
\* returned has no push().
StoreConfirmLoginThenNoCheck(c) ==
  LET c1 == [c EXCEPT !.log = Append(@, "resetToken"),
                      !.out.answer = "affirmed"]
  IN  IF ~c.in.hasGetRouter
        THEN [c1 EXCEPT !.out.pc = "settled", !.out.settled = "rejected",
                        !.out.error = "router"]
        ELSE IF ~c.in.routerHasPush
          THEN [c1 EXCEPT !.log = Append(@, "http.getRouter"),
                          !.out.pc = "settled", !.out.settled = "resolved"]
          ELSE [c1 EXCEPT !.log = @ \o <<"http.getRouter", "router.push">>,
                          !.out.pc = "push", !.out.page = c.in.loginPage]

\* The .then() of the store's confirmLogin, after this.resetToken(): calling
\* a missing http.getRouter throws a TypeError, a router without push() the
\* Error of the check; either makes the promise of the .then() reject.
StoreConfirmLoginThen(c) ==
  LET c1 == [c EXCEPT !.log = Append(@, "resetToken"),
                      !.out.answer = "affirmed"]
  IN  IF ~c.in.hasGetRouter
        THEN [c1 EXCEPT !.out.pc = "settled", !.out.settled = "rejected",
                        !.out.error = "router"]
        ELSE IF ~c.in.routerHasPush
          THEN [c1 EXCEPT !.log = Append(@, "http.getRouter"),
                          !.out.pc = "settled", !.out.settled = "rejected",
                          !.out.error = "router"]
          ELSE [c1 EXCEPT !.log = @ \o <<"http.getRouter", "router.push">>,
                          !.out.pc = "push", !.out.page = c.in.loginPage]

\* confirmLogin(): confirm.info(...) is shown and the promise of its .then()
\* is returned; nothing else runs in the turn of the call.
StoreConfirmLoginCall(setup) ==
  /\ Idle
  /\ call' = [op |-> "confirmLogin", in |-> setup, out |-> DialogOpen,
              log |-> <<"confirm.info">>]
  /\ UNCHANGED NotCallConf

\* The user affirms: this.resetToken() runs, then the navigation starts.
StoreConfirmAffirmed ==
  /\ call.op = "confirmLogin"
  /\ call.out.pc = "confirm"
  /\ Commit(Exec(Exec(W, ResetTokenBody[1], NoArgs), ResetTokenBody[2], NoArgs))
  /\ call' = StoreConfirmLoginThen(call)
  /\ UNCHANGED <<run, login, logout, load, req, cleared, lt, resp, conf, browser>>

\* The user cancels: confirm.info() rejects and the .then() is skipped.
StoreConfirmCancelled ==
  /\ call.op = "confirmLogin"
  /\ call.out.pc = "confirm"
  /\ call' = [call EXCEPT !.out.answer = "cancelled", !.out.pc = "settled",
                          !.out.settled = "rejected", !.out.error = "cancelled"]
  /\ UNCHANGED NotCallConf

StorePushSettles(ok) ==
  /\ call.op = "confirmLogin"
  /\ call.out.pc = "push"
  /\ call' = [call EXCEPT !.out.pc = "settled",
                          !.out.settled = IF ok THEN "resolved" ELSE "rejected",
                          !.out.error = IF ok THEN "" ELSE "navigation"]
  /\ UNCHANGED NotCallConf

(***************************************************************************)
(* extractContentDispositionFilename.  A header value is a sequence of     *)
(* pieces of text: the words and marks of the header, with every percent   *)
(* escape (or broken escape) a piece of its own, so that the two regular   *)
(* expressions and decodeURIComponent work on pieces as they work on       *)
(* characters.                                                             *)
(***************************************************************************)
Header(text) == [kind |-> "string", text |-> text]

NoHeader(kind) == [kind |-> kind, text |-> <<>>]

Thrown(error) == [kind |-> "thrown", text |-> <<error>>]

QuoteMarks == {"'", "\""}

\* The escapes decodeURIComponent cannot decode: no hexadecimal digits, a
\* lone byte of a longer UTF-8 sequence, a bare percent sign.
BadEscapes == {"%ZZ", "%E6", "%"}

Utf8Prefix == <<"UTF-8", "'", "'">>

ExtValues ==
  {<<"example", "%20", "file", ".txt">>, <<"%E6%B5%99", ".pdf">>,
   <<"bad", "%ZZ", ".pdf">>, <<"%E6">>, <<"100", "%">>, <<>>}

PlainValues == {<<"example", ".txt">>, <<"50", "%", "off", ".pdf">>}

ExtParams ==
  [form : {"ext"}, dress : {<<>>, Utf8Prefix}, value : ExtValues]

PlainParams ==
  [form : {"plain"}, dress : {<<>>, <<"'">>, <<"\"">>}, value : PlainValues]

\* The text of one parameter.
ParamText(p) ==
  IF p.form = "ext"
    THEN <<"filename*=">> \o p.dress \o p.value
    ELSE <<"filename=">> \o p.dress \o p.value \o p.dress

\* Content-Disposition values: a disposition type or none, no, one or two
\* filename parameters in either order, and perhaps a trailing blank.
Dispositions ==
  [given : {"string"},
   type : {<<>>, <<"attachment">>},
   params : {<<>>} \cup {<<p>> : p \in ExtParams \cup PlainParams}
              \cup {<<e, p>> : e \in ExtParams, p \in PlainParams}
              \cup {<<p, e>> : p \in PlainParams, e \in ExtParams},
   tail : {<<>>, <<" ">>}]
    \cup [given : {"null", "undefined"}, type : {<<>>}, params : {<<>>},
          tail : {<<>>}]

RECURSIVE JoinParams(_, _)
JoinParams(first, params) ==
  IF params = <<>> THEN first
  ELSE JoinParams(
         (IF first = <<>> THEN <<>> ELSE first \o <<";", " ">>)
           \o ParamText(Head(params)),
         Tail(params))

\* The value the caller passes: null, undefined or the text of the header.
HeaderOf(d) ==
  IF d.given = "string"
    THEN Header(JoinParams(d.type, d.params) \o d.tail)
    ELSE NoHeader(d.given)

\* The end of the longest run of pieces from `from` on that are not in stop.
RECURSIVE RunEnd(_, _, _)
RunEnd(h, from, stop) ==
  IF from + 1 <= Len(h) /\ h[from + 1] \notin stop
    THEN RunEnd(h, from + 1, stop)
    ELSE from

\* String.prototype.trim
RECURSIVE Trim(_)
Trim(s) ==
  IF s = <<>> THEN s
  ELSE IF Head(s) = " " THEN Trim(Tail(s))
  ELSE IF s[Len(s)] = " " THEN Trim(SubSeq(s, 1, Len(s) - 1))
  ELSE s

DecodePiece(piece) ==
  CASE piece = "%20" -> " "
    [] piece = "%E6%B5%99" -> "U+6D59"
    [] OTHER -> piece

\* decodeURIComponent(s): throws a URIError for a malformed escape.
DecodeURIComponent(s) ==
  IF \E i \in 1..Len(s) : s[i] \in BadEscapes
    THEN Thrown("URIError")
    ELSE Header([i \in 1..Len(s) |-> DecodePiece(s[i])])

\* Where /filename\*=(?:UTF-8'')?([^;]+)/ matches at i, the place its group
\* starts: after the prefix when something other than ';' follows the
\* prefix, else right after the equals sign.
StarGroupStart(h, i) ==
  IF /\ i + 4 <= Len(h)
     /\ SubSeq(h, i + 1, i + 3) = Utf8Prefix
     /\ h[i + 4] # ";"
    THEN i + 4
    ELSE i + 1

StarMatchesAt(h, i) ==
  h[i] = "filename*=" /\ i + 1 <= Len(h) /\ h[i + 1] # ";"

\* Where /filename=['"]?([^"']+)['"]?/ matches at i, the place its group
\* starts.
PlainGroupStart(h, i) ==
  IF i + 1 <= Len(h) /\ h[i + 1] \in QuoteMarks THEN i + 2 ELSE i + 1

PlainMatchesAt(h, i) ==
  /\ h[i] = "filename="
  /\ PlainGroupStart(h, i) <= Len(h)
  /\ h[PlainGroupStart(h, i)] \notin QuoteMarks

\* String.prototype.match without the g flag: the leftmost match.
FirstMatch(h, MatchesAt(_, _)) ==
  IF \E i \in 1..Len(h) : MatchesAt(h, i)
    THEN Some(CHOOSE i \in 1..Len(h) :
                /\ MatchesAt(h, i)
                /\ \A j \in 1..(i - 1) : ~MatchesAt(h, j))
    ELSE None

StarGroup(h, i) ==
  SubSeq(h, StarGroupStart(h, i), RunEnd(h, StarGroupStart(h, i), {";"}))

PlainGroup(h, i) ==
  SubSeq(h, PlainGroupStart(h, i), RunEnd(h, PlainGroupStart(h, i), QuoteMarks))

\* A variant of the extractor that looks for the plain parameter first.
extractPlainFirst(contentDisposition) ==
  LET h == contentDisposition.text
      plain == FirstMatch(h, PlainMatchesAt)
      star == FirstMatch(h, StarMatchesAt)
  IN  IF contentDisposition.kind # "string" \/ h = <<>> THEN NoHeader("null")
      ELSE IF plain # None THEN Header(Trim(PlainGroup(h, plain[1])))
      ELSE IF star # None THEN DecodeURIComponent(Trim(StarGroup(h, star[1])))
      ELSE NoHeader("null")

\* extractContentDispositionFilename(contentDisposition): the string or the
\* null it returns, or what it throws.
extractContentDispositionFilename(contentDisposition) ==
  LET h == contentDisposition.text
      filenameStarMatch == FirstMatch(h, StarMatchesAt)
      filenameMatch == FirstMatch(h, PlainMatchesAt)
  IN  IF contentDisposition.kind # "string" \/ h = <<>> THEN NoHeader("null")
      ELSE IF filenameStarMatch # None
        THEN DecodeURIComponent(Trim(StarGroup(h, filenameStarMatch[1])))
      ELSE IF filenameMatch # None
        THEN Header(Trim(PlainGroup(h, filenameMatch[1])))
      ELSE NoHeader("null")

\* One call of the extractor.
ExtractCall(d) ==
  /\ call.op = "none"
  /\ call' = [op |-> "extractContentDispositionFilename",
              in |-> d,
              out |-> extractContentDispositionFilename(HeaderOf(d)),
              log |-> <<>>]
  /\ UNCHANGED NotCallConf

TransformResponseDataCall(data, contentType) ==
  /\ call.op = "none"
  /\ call' = [op |-> "transformResponseData",
              in |-> [data |-> data, contentType |-> contentType],
              out |-> transformResponseData(data, contentType).out,
              log |-> transformResponseData(data, contentType).log]
  /\ UNCHANGED NotCallConf

(***************************************************************************)
(* download.  The GET goes through the transport; what is modelled here is *)
(* the continuation that download attaches to it.                          *)
(***************************************************************************)
DEFAULT_FILENAME == <<"downloaded_file">>

MimeTypes == {Null, "application/pdf"}

\* The filename argument: none, a plain name, a name with a percent sign.
FilenameArgs ==
  {NoHeader("null"), Header(<<"foo", ".pdf">>), Header(<<"100", "%", ".pdf">>)}

DownloadArgs ==
  [mimeType : MimeTypes, autoDownload : BOOLEAN, filename : FilenameArgs]

\* The responses of a GET that succeeded: the Content-Type header, perhaps
\* absent, and the Content-Disposition header, absent or with at most one
\* filename parameter.
DownloadResponses ==
  [data : {"file content"},
   contentType : {Undefined, "application/pdf", "text/plain"},
   contentDisposition :
     {d \in Dispositions :
        /\ d.given # "null"
        /\ Len(d.params) <= 1
        /\ d.tail = <<>>}]

Pending == [settled |-> "pending", value |-> <<>>]

Resolved(value) == [settled |-> "resolved", value |-> <<value>>]

Rejected(error) == [settled |-> "rejected", value |-> <<error>>]

\* The statements of the automatic download up to the one that throws, if
\* one does.
AutoDownloadLog(filename) ==
  IF DecodeURIComponent(filename.text).kind = "thrown"
    THEN <<"createObjectURL", "createElement">>
    ELSE <<"createObjectURL", "createElement", "appendChild", "click",
           "removeChild", "revokeObjectURL">>

\* The continuation of download for a response: what the promise settles
\* with and what was done to the document on the way.
DownloadThen(args, response) ==
  LET contentType == Coalesce(args.mimeType, response.contentType)
      extracted ==
        extractContentDispositionFilename(HeaderOf(response.contentDisposition))
      filename ==
        IF args.filename.kind # "null" THEN args.filename
        ELSE IF extracted.kind # "null" THEN extracted
        ELSE Header(DEFAULT_FILENAME)
      blob == [data |-> response.data, type |-> contentType]
  IN  IF filename.kind = "thrown"
        THEN [out |-> Rejected("URIError"), log |-> <<>>]
      ELSE IF args.autoDownload
              /\ DecodeURIComponent(filename.text).kind = "thrown"
        THEN [out |-> Rejected("URIError"), log |-> AutoDownloadLog(filename)]
      ELSE [out |-> Resolved([blob |-> blob, filename |-> filename,
                              mimeType |-> contentType]),
            log |-> IF args.autoDownload THEN AutoDownloadLog(filename)
                    ELSE <<>>]

\* download(url, params, mimeType, autoDownload, filename): the GET is
\* issued and the promise is returned.
DownloadCall(args) ==
  /\ call.op = "none"
  /\ call' = [op |-> "download",
              in |-> [args |-> args, got |-> None],
              out |-> Pending,
              log |-> <<"get">>]
  /\ UNCHANGED NotCallConf

\* The GET succeeded: the continuation runs.
DownloadGetResolves(response) ==
  /\ call.op = "download"
  /\ call.out = Pending
  /\ call' = [call EXCEPT
                !.in.got = Some(response),
                !.out = DownloadThen(call.in.args, response).out,
                !.log = @ \o DownloadThen(call.in.args, response).log]
  /\ UNCHANGED NotCallConf

\* The GET failed: the continuation is skipped and the error is handed on.
DownloadGetRejects ==
  /\ call.op = "download"
  /\ call.out = Pending
  /\ call' = [call EXCEPT !.out = Rejected("ErrorInfo")]
  /\ UNCHANGED NotCallConf

(***************************************************************************)
(* parseResponseDataAsBlob.  A payload is described by what the function   *)
(* asks of it: its type, its elements, whether JSON.stringify and String   *)
(* accept it, and for a string its pieces of text.                         *)
(***************************************************************************)
Num(n) == [type |-> "number", byte |-> n, text |-> ""]

NotNum(type, text) == [type |-> type, byte |-> 0, text |-> text]

Elements ==
  {Num(65), Num(300), NotNum("string", "B"), NotNum("NaN", ""),
   NotNum("undefined", "")}

MaxElements == 2

ElementLists == UNION {[1..n -> Elements] : n \in 0..MaxElements}

\* The base64 texts atob decodes; it throws for the others.
Base64Texts == {<<"SGVsbG8gV29ybGQ=">>, <<>>}

StringPayloads ==
  {<<"Hello World">>, <<>>, <<"{\"test\":true}">>,
   <<"data:", "text/plain;base64", ",", "SGVsbG8gV29ybGQ=">>,
   <<"data:", "text/plain;base64", ",", "InvalidBase64Data!">>,
   <<"data:", "text/plain;base64", ",">>,
   <<"data:", "text/plain">>}

Payload(kind, elems, trait, text) ==
  [kind |-> kind, elems |-> elems, trait |-> trait, text |-> text]

\* null and undefined; a Blob (of a type of its own), an ArrayBuffer, a typed
\* array; arrays and array-like objects; objects that JSON.stringify
\* accepts, cyclic ones, cyclic ones that String cannot convert either, and
\* ones whose length cannot be read; strings.
BlobPayloads ==
  {Payload(k, <<>>, "", <<>>) : k \in {"null", "undefined"}}
    \cup {Payload("Blob", <<Num(1), Num(2)>>, "text/plain", <<>>)}
    \cup {Payload(k, <<Num(1), Num(2)>>, "", <<>>) :
            k \in {"ArrayBuffer", "TypedArray"}}
    \cup {Payload(k, e, "", <<>>) : k \in {"Array", "ArrayLike"}, e \in ElementLists}
    \cup {Payload("object", <<>>, t, <<>>) :
            t \in {"plain", "cyclic", "cyclic, no toString", "throwing length"}}
    \cup {Payload("string", <<>>, "", t) : t \in StringPayloads}

BlobTypes == {Undefined, "", "application/pdf"}

\* new Blob(parts, { type })
Blob(form, content, type) ==
  [kind |-> "Blob", form |-> form, content |-> content, type |-> type]

\* atob(text)
Atob(text) ==
  IF text \in Base64Texts
    THEN [kind |-> "bytes", text |-> text]
    ELSE Thrown("InvalidCharacterError")

\* A variant of tryConvertBase64ToBlob without its catch clause.
tryConvertBase64ToBlobNoCatch(data, contentType) ==
  IF Atob(data).kind = "thrown"
    THEN Atob(data)
    ELSE Blob("decoded", data, contentType)

\* tryConvertBase64ToBlob(data, contentType)
tryConvertBase64ToBlob(data, contentType) ==
  IF Atob(data).kind = "thrown"
    THEN Blob("text", data, contentType)
    ELSE Blob("decoded", data, contentType)

\* data.substring(data.indexOf(',') + 1)
AfterComma(text) ==
  IF \E i \in 1..Len(text) : text[i] = ","
    THEN SubSeq(text, (CHOOSE i \in 1..Len(text) :
                         text[i] = "," /\ \A j \in 1..(i - 1) : text[j] # ",") + 1,
                Len(text))
    ELSE text

\* The inner try block: the array made of the data, or what is thrown.
ToDataArray(data) ==
  IF data.kind \in {"Array", "ArrayLike"} THEN [kind |-> "array", elems |-> data.elems]
  ELSE IF data.trait = "throwing length" THEN [kind |-> "thrown", elems |-> <<>>]
  ELSE IF data.trait \in {"cyclic", "cyclic, no toString"}
    THEN [kind |-> "thrown", elems |-> <<>>]
  ELSE [kind |-> "array",
        elems |-> <<NotNum("string", "JSON.stringify(data)")>>]

\* The inner catch block: [JSON.stringify(String(data))], or what String
\* throws.
FallbackArray(data) ==
  IF data.trait = "cyclic, no toString"
    THEN [kind |-> "thrown", elems |-> <<>>]
    ELSE [kind |-> "array",
          elems |-> <<NotNum("string", "JSON.stringify(String(data))")>>]

\* The Uint8Array the loop fills: a number is stored modulo 256, anything
\* else as 0.
ToBytes(elems) ==
  [i \in 1..Len(elems) |->
     IF elems[i].type = "number" THEN elems[i].byte % 256 ELSE 0]

\* The branch for data that is not a string: the outer try block and its
\* catch clause.
BinaryBlob(data, contentType) ==
  LET type == IF Truthy(contentType) THEN contentType ELSE ""
      dataArray ==
        IF ToDataArray(data).kind = "thrown" THEN FallbackArray(data)
        ELSE ToDataArray(data)
  IN  IF data.kind \in {"ArrayBuffer", "TypedArray"}
        THEN Blob("same", data.elems, type)
      ELSE IF dataArray.kind = "thrown"
        THEN Blob("empty", <<>>, type)
      ELSE IF Len(dataArray.elems) = 1 /\ dataArray.elems[1].type = "string"
        THEN Blob("text", <<dataArray.elems[1].text>>, type)
      ELSE Blob("bytes", ToBytes(dataArray.elems), type)

\* parseResponseDataAsBlob(response, contentType) for response.data = data.
parseResponseDataAsBlob(data, contentType) ==
  IF data.kind \in {"null", "undefined"} THEN Blob("empty", <<>>, contentType)
  ELSE IF data.kind = "Blob" THEN Blob("same", data.elems, data.trait)
  ELSE IF data.kind # "string" THEN BinaryBlob(data, contentType)
  ELSE IF data.text # <<>> /\ data.text[1] = "data:"
    THEN tryConvertBase64ToBlob(AfterComma(data.text), contentType)
  ELSE Blob("text", data.text, contentType)

ParseResponseDataAsBlobCall(data, contentType) ==
  /\ call.op = "none"
  /\ call' = [op |-> "parseResponseDataAsBlob",
              in |-> [data |-> data, contentType |-> contentType],
              out |-> parseResponseDataAsBlob(data, contentType),
              log |-> <<>>]
  /\ UNCHANGED NotCallConf

(***************************************************************************)
(* The two AuthStorage instances at work.                                  *)
(***************************************************************************)
NotBrowser ==
  <<store, authStorage, run, login, logout, load, req, cleared, lt, resp, conf,
    call>>

\* new AuthStorage(first) and new AuthStorage(second) in a browser whose
\* storage holds nothing yet.
ConstructStorages(first, second) ==
  /\ first # second
  /\ browser.data = FreshBrowser(first, second).data
  /\ browser' = FreshBrowser(first, second)
  /\ UNCHANGED NotBrowser

\* One store or remove operation through the instance at position i.
StorageCall(i, op) ==
  /\ LET appCode == browser.codes[i]
         d == ViewOf(browser.data, appCode)
     IN  browser' = [browser EXCEPT
                       !.last = i,
                       !.data = WriteThrough(@, appCode, d, ApplyStorageOp(d, op))]
  /\ UNCHANGED NotBrowser

(***************************************************************************)
(* The specification.                                                      *)
(***************************************************************************)
Next ==
  \/ \E saveLogin \in BOOLEAN : SetSaveLoginCall(saveLogin)
  \/ \E token \in TokenInputs : SetTokenCall(token)
  \/ RemoveTokenCall
  \/ ResetTokenCall
  \/ \E username \in Usernames, password \in Passwords, saveLogin \in BOOLEAN :
       LoginByUsernameCall(username, password, saveLogin)
  \/ \E mobile \in Mobiles, saveLogin \in BOOLEAN :
       LoginByMobileCall(mobile, saveLogin)
  \/ \E openId \in OpenIds : LoginByOpenIdCall(openId)
  \/ Step
  \/ \E response \in Responses : LoginResolve(response)
  \/ LoginReject
  \/ LogoutCall
  \/ LogoutResolve
  \/ LogoutReject
  \/ LoadTokenFromAuthStorageCall
  \/ \E outcome \in CheckOutcomes : CheckTokenSettles(outcome)
  \/ LoadReturn
  \/ CallDone

Spec == Init /\ [][Next]_vars

\* The setters, called directly by the application in any order.
NextSetters ==
  \/ \E user \in UserInputs : SetUserInfoCall(user)
  \/ \E userId \in UserIds : SetUserIdCall(userId)
  \/ \E username \in Usernames : SetUsernameCall(username)
  \/ \E password \in Passwords : SetPasswordCall(password)
  \/ \E mobile \in Mobiles : SetMobileCall(mobile)
  \/ \E avatar \in Avatars : SetAvatarCall(avatar)
  \/ \E saveLogin \in BOOLEAN : SetSaveLoginCall(saveLogin)
  \/ \E token \in TokenInputs : SetTokenCall(token)
  \/ RemoveTokenCall
  \/ \E privileges \in PrivilegeInputs : SetPrivilegesCall(privileges)
  \/ \E roles \in RoleInputs : SetRolesCall(roles)

SpecSetters == Init /\ [][NextSetters]_vars

\* Requests issued between the operations that set and remove the token.
NextRequest ==
  \/ \E saveLogin \in BOOLEAN : SetSaveLoginCall(saveLogin)
  \/ \E token \in TokenInputs : SetTokenCall(token)
  \/ RemoveTokenCall
  \/ ResetTokenCall
  \/ \E openId \in OpenIds : LoginByOpenIdCall(openId)
  \/ Step
  \/ \E response \in Responses : LoginResolve(response)
  \/ LoginReject
  \/ LogoutCall
  \/ LogoutResolve
  \/ LogoutReject
  \/ LoadTokenFromAuthStorageCall
  \/ \E outcome \in CheckOutcomes : CheckTokenSettles(outcome)
  \/ LoadReturn
  \/ \E wiring \in Wirings, cfgHeaders \in CallerHeaders :
       Request(wiring, cfgHeaders)
  \/ RequestDone
  \/ CallDone

SpecRequest == Init /\ [][NextRequest]_vars

\* loadToken, with the token set and removed in between.
NextLoadToken ==
  \/ \E saveLogin \in BOOLEAN : SetSaveLoginCall(saveLogin)
  \/ \E token \in TokenInputs : SetTokenCall(token)
  \/ RemoveTokenCall
  \/ LoadTokenCall
  \/ \E ok \in BOOLEAN : DeviceSettles(ok)
  \/ \E outcome \in CheckOutcomes : CheckTokenSettles(outcome)
  \/ LoadReturn
  \/ \E response \in Responses : RefreshResolves(response)
  \/ RefreshRejects
  \/ LoadTokenReturn

SpecLoadToken == Init /\ [][NextLoadToken]_vars

\* The responses of the transport.
NextResponse ==
  \/ \E cfg \in RequestOptions, data \in ResponseBodies :
       ResponseSucceeds(cfg, data)
  \/ \E cfg \in RequestOptions, failure \in Failures : ResponseFails(cfg, failure)
  \/ AlertClosed
  \/ \E env \in Environments : ConfirmAffirmed(env)
  \/ ConfirmCancelled
  \/ \E ok \in BOOLEAN : PushSettles(ok)
  \/ ResponseDone

SpecResponse == Init /\ [][NextResponse]_vars

\* Requests under a configuration the application keeps changing.
NextConfig ==
  \/ \E item \in RequiredItems : Provide(item)
  \/ \E item \in RequiredItems : Withdraw(item)
  \/ RequestConfigInterceptorCall
  \/ CallDone

SpecConfig == Init /\ [][NextConfig]_vars

\* The header fix-up over every combination of caller-supplied headers.
NextHeaders ==
  \/ \E cfgHeaders \in AllCallerHeaders, accessToken \in AccessTokens :
       FixRequestHeaderCall(cfgHeaders, accessToken)
  \/ CallDone

SpecHeaders == Init /\ [][NextHeaders]_vars

\* The response transformer over every body and content type.
NextTransform ==
  \/ \E data \in Bodies, contentType \in ContentTypes :
       TransformResponseDataCall(data, contentType)
  \/ CallDone

SpecTransform == Init /\ [][NextTransform]_vars

\* Logins that the authentication API answers or rejects.
NextLoginFails ==
  \/ \E username \in Usernames, password \in Passwords, saveLogin \in BOOLEAN :
       LoginByUsernameCall(username, password, saveLogin)
  \/ \E mobile \in Mobiles, saveLogin \in BOOLEAN :
       LoginByMobileCall(mobile, saveLogin)
  \/ \E openId \in OpenIds : LoginByOpenIdCall(openId)
  \/ Step
  \/ \E response \in Responses : LoginResolve(response)
  \/ LoginReject
  \/ CallDone

SpecLoginFails == Init /\ [][NextLoginFails]_vars

\* Logouts that the authentication API answers or rejects, after logins.
NextLogoutFails ==
  \/ \E username \in Usernames, password \in Passwords, saveLogin \in BOOLEAN :
       LoginByUsernameCall(username, password, saveLogin)
  \/ Step
  \/ \E response \in Responses : LoginResolve(response)
  \/ LogoutCall
  \/ LogoutResolve
  \/ LogoutReject
  \/ CallDone

SpecLogoutFails == Init /\ [][NextLogoutFails]_vars

\* Batches of overlapping requests under one loading indicator.
NextBatch ==
  \/ \E cfgs \in BatchOptions : BatchIssue(cfgs)
  \/ \E i \in 1..MaxBatch, data \in ResponseBodies : BatchSucceeds(i, data)
  \/ \E i \in 1..MaxBatch, failure \in BatchFailures : BatchFails(i, failure)
  \/ \E i \in 1..MaxBatch : BatchAlertClosed(i)
  \/ CallDone

SpecBatch == Init /\ [][NextBatch]_vars

\* Failed responses under every set-up of the router accessor.
NextRelogin ==
  \/ \E cfg \in RequestOptions, failure \in Failures : ResponseFails(cfg, failure)
  \/ AlertClosed
  \/ \E env \in RouterSetups : ConfirmAffirmed(env)
  \/ ConfirmCancelled
  \/ \E ok \in BOOLEAN : PushSettles(ok)
  \/ ResponseDone

SpecRelogin == Init /\ [][NextRelogin]_vars

\* Two AuthStorage instances of different application codes.
NextStorages ==
  \/ \E first \in AppCodes, second \in AppCodes : ConstructStorages(first, second)
  \/ \E i \in 1..2, op \in StorageOps : StorageCall(i, op)

SpecStorages == Init /\ [][NextStorages]_vars

\* The coercion of a response's data to a Blob over every payload.
NextBlob ==
  \/ \E data \in BlobPayloads, contentType \in BlobTypes :
       ParseResponseDataAsBlobCall(data, contentType)
  \/ CallDone

SpecBlob == Init /\ [][NextBlob]_vars

\* Downloads, with and without the automatic download.
NextDownload ==
  \/ \E args \in DownloadArgs : DownloadCall(args)
  \/ \E response \in DownloadResponses : DownloadGetResolves(response)
  \/ DownloadGetRejects
  \/ CallDone

SpecDownload == Init /\ [][NextDownload]_vars

\* The filename extractor over the Content-Disposition values.
NextExtract ==
  \/ \E d \in Dispositions : ExtractCall(d)
  \/ CallDone

SpecExtract == Init /\ [][NextExtract]_vars

\* Login responses applied, with the save flag switched and the session
\* reset in between.
NextProfile ==
  \/ \E saveLogin \in BOOLEAN : SetSaveLoginCall(saveLogin)
  \/ ResetTokenCall
  \/ Step
  \/ \E response \in LoginResponses : SetLoginResponseCall(response)
  \/ CallDone

SpecProfile == Init /\ [][NextProfile]_vars

\* Partial profiles merged into whatever profile the store holds.
NextMerge ==
  \/ \E saveLogin \in BOOLEAN : SetSaveLoginCall(saveLogin)
  \/ \E user \in UserInputs : SetUserInfoCall(user)
  \/ \E info \in PartialProfiles : MergeUserInfoCall(info)
  \/ CallDone

SpecMerge == Init /\ [][NextMerge]_vars

\* The store's confirmLogin under every router set-up, with tokens set in
\* between.
NextStoreConfirm ==
  \/ \E token \in TokenInputs : SetTokenCall(token)
  \/ \E saveLogin \in BOOLEAN : SetSaveLoginCall(saveLogin)
  \/ \E setup \in RouterSetups : StoreConfirmLoginCall(setup)
  \/ StoreConfirmAffirmed
  \/ StoreConfirmCancelled
  \/ \E ok \in BOOLEAN : StorePushSettles(ok)
  \/ CallDone

SpecStoreConfirm == Init /\ [][NextStoreConfirm]_vars

\* The two re-login flows, the transport's and the store's, under every
\* set-up of the router accessor.  The flows share no state; the store's
\* is started while no response of the transport is being handled.
NextBothRelogins ==
  \/ /\ call.op = "none"
     /\ \E cfg \in RequestOptions, failure \in Failures : ResponseFails(cfg, failure)
  \/ AlertClosed
  \/ \E env \in RouterSetups : ConfirmAffirmed(env)
  \/ ConfirmCancelled
  \/ \E ok \in BOOLEAN : PushSettles(ok)
  \/ ResponseDone
  \/ /\ resp.pc \in {"idle", "settled"}
     /\ \E setup \in RouterSetups : StoreConfirmLoginCall(setup)
  \/ StoreConfirmAffirmed
  \/ StoreConfirmCancelled
  \/ \E ok \in BOOLEAN : StorePushSettles(ok)
  \/ CallDone

SpecBothRelogins == Init /\ [][NextBothRelogins]_vars

(***************************************************************************)
(* Properties of the session store and the transport.                      *)
(***************************************************************************)
NonEmptyTokenValues == TokenValues \cup {SavedTokenValue}

\* C1: the store reports loggedIn exactly when its token is not null and the
\* token's value is a non-empty string.
C1_LoggedInIffTokenValue ==
  loggedIn(store) <=>
    (store.token # None /\ store.token[1].value \in NonEmptyTokenValues)

\* setToken has stored a token object whose value is the empty string.
C1_Witness ==
  store.token # None /\ store.token[1].value = "" /\ ~loggedIn(store)

\* The user profile fields of the storage, the avatar apart.
NoUserProfile(d) ==
  /\ d.user_id = Undefined /\ d.username = Undefined /\ d.nickname = Undefined
  /\ d.name = Undefined /\ d.gender = Undefined /\ d.mobile = Undefined

\* C2: whenever the store's saveLogin is false, the storage holds no token,
\* no user profile and no password.
C2_NothingPersistedUnlessSaving ==
  (Idle /\ ~store.saveLogin) =>
    /\ authStorage.token = None
    /\ authStorage.password = Undefined
    /\ NoUserProfile(authStorage)

\* C3: every setter of a persisted field stores the value it was given when
\* saveLogin is true and leaves the field absent from the storage when
\* saveLogin is false.
C3_StoreOrRemove ==
  [][/\ \A user \in UserInputs :
          SetUserInfoCall(user) =>
            IF store.saveLogin
              THEN /\ authStorage'.user_id = user.id
                   /\ authStorage'.username = user.username
                   /\ authStorage'.nickname = user.nickname
                   /\ authStorage'.name = user.name
                   /\ authStorage'.gender = user.gender
                   /\ authStorage'.mobile = user.mobile
              ELSE NoUserProfile(authStorage')
     /\ \A userId \in UserIds :
          SetUserIdCall(userId) =>
            authStorage'.user_id = IF store.saveLogin THEN userId ELSE Undefined
     /\ \A username \in Usernames :
          SetUsernameCall(username) =>
            authStorage'.username =
              IF store.saveLogin THEN username ELSE Undefined
     /\ \A password \in Passwords :
          SetPasswordCall(password) =>
            authStorage'.password =
              IF store.saveLogin THEN password ELSE Undefined
     /\ \A mobile \in Mobiles :
          SetMobileCall(mobile) =>
            authStorage'.mobile = IF store.saveLogin THEN mobile ELSE Undefined
     /\ \A token \in TokenInputs :
          SetTokenCall(token) =>
            authStorage'.token = IF store.saveLogin THEN Some(token) ELSE None
     /\ \A privileges \in PrivilegeInputs :
          SetPrivilegesCall(privileges) =>
            authStorage'.privileges =
              IF store.saveLogin THEN Some(privileges) ELSE None
     /\ \A roles \in RoleInputs :
          SetRolesCall(roles) =>
            authStorage'.roles = IF store.saveLogin THEN Some(roles) ELSE None
    ]_vars

\* C4: in resetToken and in the continuation of logout, when the state reset
\* is about to run the token is already gone from memory and from the storage.
C4_TokenRemovedBeforeReset ==
  (run.in \in {"resetToken", "logout"} /\ NextStmt = "resetState") =>
    (store.token = None /\ authStorage.token = None)

\* logout started with a token held and is about to reset the state.
C4_Witness ==
  /\ run.in = "logout" /\ run.had /\ NextStmt = "resetState"
  /\ store.token = None /\ authStorage.token = None

\* C5: in every login variant, when the authentication API's login method is
\* about to be called the store's token is null and no token is persisted.
C5_NoTokenAtLoginCall ==
  NextStmt = "callLogin" => (store.token = None /\ authStorage.token = None)

\* loginByMobile started with a token held and is about to call the API.
C5_Witness ==
  /\ run.in = "loginByMobile" /\ run.had /\ NextStmt = "callLogin"
  /\ store.token = None /\ authStorage.token = None

\* The transport added the access-token header to the request: the caller
\* had not set it and the fixed configuration has it.
AccessTokenAdded ==
  req.cfg.accessToken = Undefined /\ req.headers.accessToken # Undefined

\* The credential getter returned a token with a non-empty value.
GotNonEmptyToken == req.got # None /\ req.got[1].value \in NonEmptyTokenValues

\* C6, as the code has it: the transport adds the access-token header, with
\* the token's value, exactly when the credential getter returns a token with
\* a non-empty value and the caller has not set that header itself; so a
\* request issued after a token removal, while no token has been set again,
\* carries no access-token header added by the transport.
C6_HeaderIffTokenAndCallerSilent ==
  req.issued =>
    /\ AccessTokenAdded <=> (GotNonEmptyToken /\ req.cfg.accessToken = Undefined)
    /\ AccessTokenAdded => req.headers.accessToken = req.got[1].value
    /\ (cleared /\ store.token = None /\ authStorage.token = None) =>
         ~AccessTokenAdded

\* A request without a caller-set access-token header is issued after a token
\* removal, while no token is held, and gets no access-token header.
C6_Witness ==
  /\ req.issued /\ cleared /\ req.cfg.accessToken = Undefined
  /\ store.token = None /\ authStorage.token = None
  /\ ~AccessTokenAdded

\* C6, as stated: the transport adds the access-token header exactly when the
\* credential getter returns a token with a non-empty value; so a request
\* issued after a token removal and before the next successful login carries
\* no access-token header added by the transport.
C6_HeaderIffToken ==
  req.issued =>
    /\ AccessTokenAdded <=> GotNonEmptyToken
    /\ cleared => ~AccessTokenAdded

\* checkToken ended with a truthy value.
CheckedValid == load.outcome = [kind |-> "resolve", value |-> "token"]

\* loadTokenFromAuthStorage has just returned after a revalidation.
Revalidated == load.pc = "return" /\ load.outcome.kind # "none"

\* The persisted login bundle is absent from the storage.
BundleAbsent(d) ==
  /\ NoUserProfile(d) /\ d.avatar = Undefined /\ d.organization = Undefined
  /\ d.password = Undefined /\ d.token = None
  /\ d.privileges = None /\ d.roles = None

\* C7: when the stored user id and token are present and checkToken resolves
\* falsy or fails, loadTokenFromAuthStorage returns false and the persisted
\* login bundle is absent afterwards.
C7_InvalidTokenPurgesBundle ==
  (Revalidated /\ ~CheckedValid) =>
    (load.ret = "false" /\ BundleAbsent(authStorage))

\* checkToken rejected for a stored user id and token; the call returned false.
C7_Witness ==
  /\ Revalidated /\ load.outcome.kind = "reject"
  /\ load.uid = "u1" /\ load.tok = Some(Token(SavedTokenValue))
  /\ load.ret = "false" /\ BundleAbsent(authStorage)

\* C8: when the stored user id and token are present and checkToken resolves
\* truthy, loadTokenFromAuthStorage returns true and the store's user id and
\* token are the persisted ones, so that loggedIn is true.
C8_ValidTokenCommitted ==
  (Revalidated /\ CheckedValid) =>
    /\ load.ret = "true"
    /\ store.user # None /\ store.user[1].id = load.uid
    /\ store.token = load.tok
    /\ loggedIn(store)

\* checkToken resolved truthy after the store's token had been removed.
C8_Witness ==
  /\ Revalidated /\ CheckedValid /\ cleared
  /\ load.ret = "true" /\ store.token = Some(Token(SavedTokenValue))

\* C9: after a revalidation found the token invalid, the store's token is
\* null and loggedIn is false.
C9_InvalidTokenLeavesStoreLoggedOut ==
  (Revalidated /\ load.ret = "false") =>
    (store.token = None /\ ~loggedIn(store))

\* C10: the promise of isTokenValid never rejects; it resolves to true exactly
\* when checkToken resolves to a truthy value, and to false when checkToken
\* resolves falsy, rejects or throws.
C10_IsTokenValidNeverRejects ==
  Revalidated =>
    /\ load.valid.settled = "resolved"
    /\ load.valid.value <=> CheckedValid

\* checkToken threw and isTokenValid resolved to false.
C10_Witness ==
  /\ Revalidated /\ load.outcome.kind = "throw"
  /\ load.valid = [settled |-> "resolved", value |-> FALSE]

(***************************************************************************)
(* Properties of loadToken and of the response interceptors.               *)
(***************************************************************************)
Logged(log, entry) == \E i \in 1..Len(log) : log[i] = entry

SourceSucceeded == {"device:true", "storage:true"}

Failed == resp.pc # "idle" /\ ~resp.succeeded

FailedWith(codes) ==
  /\ Failed
  /\ resp.failure.data # None
  /\ resp.failure.data[1].code \in codes

\* The events of the response under way, by name.
Count(ev) == Cardinality({i \in 1..Len(resp.log) : resp.log[i].ev = ev})

Happened(ev) == Count(ev) > 0

Position(ev) == CHOOSE i \in 1..Len(resp.log) : resp.log[i].ev = ev

\* C12: the promise of a request that ended in the failure phase, whether
\* with a structured server error or with a network-level failure, is
\* rejected and never resolved, also when the user affirmed the re-login
\* dialog.
C12_FailureAlwaysRejects ==
  Failed /\ resp.pc = "settled" => resp.settled = "rejected"

ReloginText == Text(<<ReloginTitle, ReloginMessage>>, None)

LoginRequiredHandled ==
  FailedWith({"LOGIN_REQUIRED"}) /\ ~resp.cfg.skipAutoErrorHandling

ResetThenPushedTo(page) ==
  /\ Count("resetAccessToken") = 1
  /\ Count("router.push") = 1
  /\ Position("confirm") < Position("resetAccessToken")
  /\ Position("resetAccessToken") < Position("router.push")
  /\ resp.log[Position("router.push")].page = page

\* C13: when a request fails with LOGIN_REQUIRED and automatic handling is
\* not skipped, the re-login dialog is shown (once, with the fixed prompt);
\* nothing is reset and nothing is navigated before the user affirms, and
\* from the affirmation on the credential-reset callback and the navigation
\* to the configured login page have each been invoked exactly once, the
\* reset before the navigation.
C13_ReloginResetsThenNavigates ==
  /\ [](LoginRequiredHandled =>
          /\ Count("confirm") = 1
          /\ resp.log[Position("confirm")].text = ReloginText
          /\ Count("alert") = 0
          /\ resp.pc = "confirm" =>
               Count("resetAccessToken") = 0 /\ Count("router.push") = 0
          /\ Happened("resetAccessToken") \/ Happened("router.push") =>
               \E env \in Environments : ResetThenPushedTo(env.loginPage))
  /\ [][\A env \in Environments :
          LoginRequiredHandled /\ ConfirmAffirmed(env) =>
            ResetThenPushedTo(env.loginPage)']_vars

\* The user affirmed the dialog of a LOGIN_REQUIRED failure and the
\* navigation to the configured page has ended.
C13_Witness ==
  /\ LoginRequiredHandled
  /\ resp.pc = "settled"
  /\ Happened("resetAccessToken")
  /\ Happened("router.push")
  /\ resp.log[Position("router.push")].page = "SignIn"

FailedError == resp.failure.data[1]

\* The params of the error contain the entry { key, value }.
HasParam(error, key, value) ==
  /\ error.params # None
  /\ \E i \in 1..Len(error.params[1]) : error.params[1][i] = Param(key, value)

TokenCodes == {"SESSION_EXPIRED", "INVALID_TOKEN"}

AppLevelError ==
  \/ FailedWith({"APP_AUTHENTICATION_REQUIRED"})
  \/ FailedWith(TokenCodes) /\ HasParam(FailedError, "entity", "app")

RejectedWithOriginalError ==
  resp.pc = "settled" =>
    resp.settled = "rejected" /\ resp.value = ErrorValue(FailedError)

\* C14: when a request fails with an application-level authentication error
\* (SESSION_EXPIRED or INVALID_TOKEN whose params hold entity=app, or
\* APP_AUTHENTICATION_REQUIRED) and automatic handling is on, one blocking
\* alert is shown, no confirmation dialog is shown, neither the
\* credential-reset callback nor the router is invoked, and the promise
\* rejects with the original structured error.
C14_AppAuthErrorAlertsOnly ==
  AppLevelError /\ ~resp.cfg.skipAutoErrorHandling =>
    /\ Count("alert") = 1
    /\ Count("confirm") = 0
    /\ Count("resetAccessToken") = 0
    /\ Count("router.push") = 0
    /\ RejectedWithOriginalError

UnknownErrorAlert(error) ==
  Text(IF Truthy(error.message)
         THEN <<error.message, ContactAdmin>>
         ELSE <<UnknownErrorText>>,
       error.params)

\* C15: for SESSION_EXPIRED and INVALID_TOKEN (automatic handling on) the
\* re-login dialog is shown if and only if the params contain the entry
\* entity=user, at whatever position; when the params contain neither
\* entity=app nor entity=user the unknown-error alert is shown instead.
C15_ReloginIffEntityUser ==
  FailedWith(TokenCodes) /\ ~resp.cfg.skipAutoErrorHandling =>
    /\ Happened("confirm") <=> HasParam(FailedError, "entity", "user")
    /\ ~HasParam(FailedError, "entity", "app")
         /\ ~HasParam(FailedError, "entity", "user") =>
           /\ Count("alert") = 1
           /\ resp.log[Position("alert")].text = UnknownErrorAlert(FailedError)
           /\ Count("confirm") = 0

ClassifiedCodes ==
  {"LOGIN_REQUIRED", "SESSION_EXPIRED", "INVALID_TOKEN",
   "APP_AUTHENTICATION_REQUIRED"}

\* C16: for a structured error of any other code (automatic handling on) one
\* alert is shown whose text is the error's message followed by the
\* contact-the-administrator suffix, or the generic unknown-error text when
\* the error has no message, with the JSON dump of the params appended when
\* the error has params; then the promise rejects with the original error.
C16_OtherCodesUnknownErrorAlert ==
  FailedWith(ErrorCodes \ ClassifiedCodes) /\ ~resp.cfg.skipAutoErrorHandling =>
    /\ Count("alert") = 1
    /\ resp.log[Position("alert")].text = UnknownErrorAlert(FailedError)
    /\ Count("confirm") = 0
    /\ RejectedWithOriginalError

Skipped == Failed /\ resp.cfg.skipAutoErrorHandling

\* error.message ?? Json.stringify(error), for the failure under way.
Diagnostic ==
  IF resp.failure.message \in {Undefined, Null}
    THEN StringifiedFailure
    ELSE resp.failure.message

NoUserInterface ==
  /\ Count("alert") = 0
  /\ Count("confirm") = 0
  /\ Count("resetAccessToken") = 0
  /\ Count("router.push") = 0

\* C17: a request issued with skipAutoErrorHandling that fails is rejected
\* at once with the original structured server error, or with the
\* synthesized NETWORK_ERROR/UNKNOWN error when there is no structured body;
\* no alert and no confirmation is shown and neither the credential-reset
\* callback nor the router is invoked.
C17_SkippedHandlingRejectsSilently ==
  Skipped =>
    /\ resp.pc = "settled"
    /\ resp.settled = "rejected"
    /\ resp.value = IF resp.failure.data # None
                      THEN ErrorValue(FailedError)
                      ELSE NetworkErrorValue(Diagnostic)
    /\ NoUserInterface

\* A LOGIN_REQUIRED failure, which would otherwise open the re-login
\* dialog, and a network-level failure, both rejected with handling skipped.
C17_Witness ==
  /\ Skipped
  /\ resp.settled = "rejected"
  /\ \/ FailedWith({"LOGIN_REQUIRED"}) /\ resp.value.error.code = "LOGIN_REQUIRED"
     \/ resp.failure.data = None /\ resp.value.error.code = "UNKNOWN"

NetworkFailure == Failed /\ resp.failure.data = None

\* C18: a request that fails without a structured server error body is
\* rejected with an ErrorInfo of type NETWORK_ERROR and code UNKNOWN whose
\* message is the fixed prefix followed by the failure's message, or by the
\* JSON dump of the failure when it has no message; unless automatic
\* handling is skipped, one alert with that same text is shown before the
\* promise rejects, and no alert is shown when it is skipped.
C18_NetworkFailureSynthesizesErrorInfo ==
  NetworkFailure =>
    /\ resp.pc = "settled" =>
         /\ resp.settled = "rejected"
         /\ resp.value.kind = "errorInfo"
         /\ resp.value.error.type = "NETWORK_ERROR"
         /\ resp.value.error.code = "UNKNOWN"
         /\ resp.value.text = <<NetworkErrorPrefix, Diagnostic>>
    /\ Count("confirm") = 0
    /\ IF resp.cfg.skipAutoErrorHandling
         THEN Count("alert") = 0
         ELSE /\ Count("alert") = 1
              /\ resp.log[Position("alert")].text =
                   Text(<<NetworkErrorPrefix, Diagnostic>>, None)
              /\ Happened("rejected") => Position("alert") < Position("rejected")

\* A failure without message has been alerted with the JSON dump and the
\* promise has rejected.
C18_Witness ==
  /\ NetworkFailure
  /\ resp.failure.message = Undefined
  /\ ~resp.cfg.skipAutoErrorHandling
  /\ resp.pc = "settled"
  /\ resp.value.text = <<NetworkErrorPrefix, StringifiedFailure>>
  /\ Happened("alert")

Settlements == {"rejected", "resolved"}

\* C19: for every request that fails, with or without noAutoClearLoading and
\* with or without skipAutoErrorHandling, the loading indicator is cleared
\* first: before any alert or dialog and before the promise settles.
C19_FailureClearsLoadingFirst ==
  Failed =>
    /\ resp.log[1].ev = "loading.clear"
    /\ \A i \in 1..Len(resp.log) :
         resp.log[i].ev \in Settlements => Position("loading.clear") < i

\* A failure of a request that set both flags has rejected after the
\* indicator was cleared.
C19_Witness ==
  /\ Skipped
  /\ resp.cfg.noAutoClearLoading
  /\ resp.settled = "rejected"
  /\ Happened("loading.clear")

Succeeded == resp.pc # "idle" /\ resp.succeeded

\* C20: on a successful response (that of a download included) the transport
\* clears the loading indicator if and only if the request did not set
\* noAutoClearLoading.
C20_SuccessClearsUnlessOptedOut ==
  Succeeded => (Happened("loading.clear") <=> ~resp.cfg.noAutoClearLoading)

(***************************************************************************)
(* Properties of the configuration check, the header fix-up, the response  *)
(* transformer, the profile operations, the download and the filename      *)
(* extractor.                                                              *)
(***************************************************************************)
Requested == call.op = "request"

HeadersFixed == call.op = "fixRequestHeader"

\* C22: after the header fix-up every header the caller supplied with a
\* non-nullish value (Content-Type, Accept, the app-token header and the
\* access-token header alike) still has exactly the caller's value, and a
\* header differs from what the caller passed only where the caller passed
\* none, where it then has the transport's default.
C22_CallerHeadersWin ==
  HeadersFixed =>
    \A k \in HeaderKeys :
      /\ call.in.headers[k] \notin {Undefined, Null} =>
           call.out[k] = call.in.headers[k]
      /\ call.out[k] # call.in.headers[k] =>
           /\ call.in.headers[k] = Undefined
           /\ call.out[k] = DefaultHeaders(call.in.accessToken)[k]

\* The caller set all four headers while a token with a value was held, and
\* another caller set none and got the four defaults.
C22_Witness ==
  /\ HeadersFixed
  /\ Truthy(TokenValueOf(call.in.accessToken))
  /\ \/ \A k \in HeaderKeys : call.out[k] = "caller's value"
     \/ /\ call.in.headers = NoHeaders
        /\ \A k \in HeaderKeys : Truthy(call.out[k])

Transformed == call.op = "transformResponseData"

\* C23: the response transformer returns null for an empty-string body
\* whatever the content type, and the empty string is never handed to the
\* JSON parser.
C23_EmptyBodyBecomesNull ==
  Transformed =>
    /\ call.in.data = Str("") => call.out = NotStr("null") /\ call.log = <<>>
    /\ ~Logged(call.log, "")

\* An empty body of a JSON response has been transformed.
C23_Witness ==
  /\ Transformed
  /\ call.in.data = Str("")
  /\ StartsWithJson(call.in.contentType)
  /\ call.out.kind = "null"

LoginResponseSet == call.op = "setLoginResponse"

\* The profile of the response after refreshAvatar: an empty avatar is
\* replaced by the default avatar of the gender, when there is a gender.
WithAvatarRefreshed(user) ==
  IF Truthy(user.avatar) \/ ~Truthy(user.gender)
    THEN user
    ELSE [user EXCEPT !.avatar =
            CASE user.gender = "MALE" -> DefaultAvatarMale
              [] user.gender = "FEMALE" -> DefaultAvatarFemale
              [] OTHER -> ""]

\* C24: after setLoginResponse(response), which runs in one synchronous
\* step, the store's user info, token, privileges, roles and organization
\* are those of the response, the avatar having been refreshed.
C24_LoginResponseApplied ==
  LoginResponseSet =>
    /\ store.user = Some(WithAvatarRefreshed(call.in.user))
    /\ store.token = Some(call.in.token)
    /\ store.privileges = call.in.privileges
    /\ store.roles = call.in.roles
    /\ Coalesce(organizationOf(store), Null) = call.in.organization

Merged == call.op = "mergeUserInfo"

ProfileFields == DOMAIN EmptyUser

\* For every field of `fields`: one that was non-empty before the merge is
\* unchanged, and one that was empty has the incoming value when that is
\* non-empty.
MergeFills(fields) ==
  \A f \in fields :
    /\ Truthy(call.in.user[f]) => store.user[1][f] = call.in.user[f]
    /\ ~Truthy(call.in.user[f]) /\ Truthy(call.in.info[f]) =>
         store.user[1][f] = call.in.info[f]

\* C25 as stated: mergeUserInfo(P) leaves every non-empty field of the
\* profile unchanged and gives every empty field P's value when P's value
\* is non-empty, for every field of the profile.
C25_MergeFillsEveryField == Merged => MergeFills(ProfileFields)

\* C25: mergeUserInfo(P) leaves every non-empty field of the profile
\* unchanged, and gives each of the fields username, name, nickname, gender,
\* avatar and mobile that was empty P's value when P's value is non-empty.
C25_MergeFillsMergedFields ==
  Merged =>
    /\ MergeFills(MergedFields)
    /\ \A f \in ProfileFields :
         Truthy(call.in.user[f]) => store.user[1][f] = call.in.user[f]

\* A merge into a profile that had a name but no username and no avatar:
\* the name stayed, the username and the avatar came from the partial.
C25_Witness ==
  /\ Merged
  /\ call.in.user.name = "Alice"
  /\ call.in.info.name = "Carol"
  /\ store.user[1].name = "Alice"
  /\ ~Truthy(call.in.user.avatar)
  /\ store.user[1].avatar = "c.png"

Confirming == call.op = "confirmLogin"

RouterUsable == call.in.hasGetRouter /\ call.in.routerHasPush

\* C26: the store's confirmLogin shows the confirmation dialog first; when
\* the user affirms, resetToken is called (the token is gone from the store
\* and from the storage) and then the router is fetched and asked to
\* navigate to the configured login page, in that order; while the dialog
\* is open and when the user cancels, neither resetToken nor the router
\* accessor has been called.
C26_StoreConfirmLoginOrder ==
  Confirming =>
    /\ call.log[1] = "confirm.info"
    /\ call.out.answer # "affirmed" =>
         call.log = <<"confirm.info">> /\ call.out.page = ""
    /\ call.out.answer = "affirmed" /\ RouterUsable =>
         /\ call.log =
              <<"confirm.info", "resetToken", "http.getRouter", "router.push">>
         /\ call.out.page = call.in.loginPage
         /\ store.token = None
         /\ authStorage.token = None

\* The user affirmed, the token was reset and the navigation to the
\* configured page has ended.
C26_Witness ==
  /\ Confirming
  /\ call.out.answer = "affirmed"
  /\ call.out.settled = "resolved"
  /\ call.out.page = "SignIn"
  /\ Logged(call.log, "resetToken")

Extracted == call.op = "extractContentDispositionFilename"

\* The parameters of the given form in the header of the call.
ParamsOf(d, form) ==
  {d.params[i] : i \in {j \in 1..Len(d.params) : d.params[j].form = form}}

\* The header of the call holds an extended parameter with a value and a
\* plain parameter.
BothForms ==
  /\ Extracted
  /\ \E e \in ParamsOf(call.in, "ext") : e.value # <<>>
  /\ ParamsOf(call.in, "plain") # {}

\* The text an escape stands for.
Unescaped ==
  [piece \in {"%20", "%E6%B5%99"} |->
     IF piece = "%20" THEN " " ELSE "U+6D59"]

\* The percent-decoded text of a value whose escapes are well formed.
Decoded(value) ==
  [i \in 1..Len(value) |->
     IF value[i] \in DOMAIN Unescaped THEN Unescaped[value[i]] ELSE value[i]]

WellFormed(value) == \A i \in 1..Len(value) : value[i] \notin BadEscapes

\* C29: for a header that holds both an extended filename*= parameter and a
\* plain filename= parameter, in either order, the extractor returns the
\* percent-decoded value of the extended parameter and never the value of
\* the plain one.
C29_ExtendedFormWins ==
  BothForms =>
    \A e \in ParamsOf(call.in, "ext"), p \in ParamsOf(call.in, "plain") :
      /\ WellFormed(e.value) => call.out = Header(Decoded(e.value))
      /\ call.out # Header(p.value)

\* The plain parameter came first and the extended one, with an escape in it,
\* was returned decoded.
C29_Witness ==
  /\ BothForms
  /\ call.in.params[1].form = "plain"
  /\ call.in.params[2].value = <<"example", "%20", "file", ".txt">>
  /\ call.out = Header(<<"example", " ", "file", ".txt">>)

\* C30: the extractor never throws: for every input, null, undefined, empty,
\* without a filename or malformed, it returns a string or null.
C30_NeverThrows ==
  Extracted => call.out.kind \in {"string", "null"}

Downloaded == call.op = "download" /\ call.in.got # None

DocumentCalls ==
  {"createObjectURL", "createElement", "appendChild", "click", "removeChild",
   "revokeObjectURL"}

\* Nothing was done to the document or to the object URLs.
DocumentUntouched == \A i \in 1..Len(call.log) : call.log[i] \notin DocumentCalls

\* C28: a download whose GET succeeded always resolves with the triple of
\* blob, filename and MIME type, with autoDownload on or off, and with
\* autoDownload off it creates and revokes no object URL and appends and
\* removes no anchor.
C28_DownloadResolvesWithTriple ==
  Downloaded =>
    /\ call.out.settled = "resolved"
    /\ DOMAIN call.out.value[1] = {"blob", "filename", "mimeType"}
    /\ ~call.in.args.autoDownload => DocumentUntouched

(***************************************************************************)
(* Properties of the coercion to a Blob.                                   *)
(***************************************************************************)
Coerced == call.op = "parseResponseDataAsBlob"

\* C31: parseResponseDataAsBlob is total: for null, a Blob, a typed array, an
\* array of numbers and other elements, a cyclic object, a data URL with
\* malformed base64 and a plain string alike it returns a Blob and never
\* throws.
C31_BlobCoercionTotal ==
  Coerced => call.out.kind = "Blob"

\* A data URL whose base64 part atob rejects has been coerced to a Blob of
\* that text.
C31_Witness ==
  /\ Coerced
  /\ call.in.data.text = <<"data:", "text/plain;base64", ",", "InvalidBase64Data!">>
  /\ call.out = Blob("text", <<"InvalidBase64Data!">>, call.in.contentType)

(***************************************************************************)
(* Properties of AuthStorage instances sharing one browser.                *)
(***************************************************************************)
\* What the instance at position i loads.
Loaded(i) == ViewOf(browser.data, browser.codes[i])

\* C32: two AuthStorage instances constructed with different application
\* codes never interfere: a store or remove operation through one of them
\* leaves every value the other loads unchanged.
C32_InstancesDoNotInterfere ==
  [][\A i \in 1..2 :
       browser'.codes = browser.codes /\ browser'.last = i /\ browser' # browser
         => ViewOf(browser'.data, browser'.codes[3 - i]) = Loaded(3 - i)]_vars

\* The instance of "app1" holds a token and a password, and the instance of
\* "app1.token" has just removed its own login bundle and holds none.
C32_Witness ==
  /\ browser.codes = <<(<<"app1">>), (<<"app1", ".", "token">>)>>
  /\ browser.last = 2
  /\ Loaded(1).token = Some(Token("t1"))
  /\ Loaded(1).password = "pw1"
  /\ Loaded(2).token = None
  /\ Loaded(2).save_login = Some(TRUE)

(***************************************************************************)
(* Properties of calls that overlap, and of failing calls.                 *)
(***************************************************************************)
\* loadTokenFromAuthStorage is about to resume after isTokenValid, a login
\* succeeded while it waited, and the store still holds that login's token.
ResumesAfterLogin ==
  /\ load.pc = "check"
  /\ load.login # None
  /\ store.token = load.login

\* C33: if a login succeeds while loadTokenFromAuthStorage waits for the
\* revalidation of the token, the end of loadTokenFromAuthStorage leaves the
\* login's token in place, in memory and, when saveLogin is true, in the
\* AuthStorage: it is neither overwritten by the older token nor purged.
C33_LoginTokenSurvivesLoad ==
  [][ResumesAfterLogin /\ load'.pc = "return"
       => /\ store'.token = load.login
          /\ store.saveLogin /\ authStorage.token = load.login
               => authStorage'.token = load.login]_vars

\* C33 as the code has it: the login's token does not survive.  When the
\* revalidation succeeds the older token, read before the wait, replaces it
\* in memory and, when saveLogin is true, in the AuthStorage; when it fails
\* the login's token stays in memory and the persisted login, its token
\* included, is purged.
C33_LoadOverridesLogin ==
  [][ResumesAfterLogin /\ load'.pc = "return"
       => IF load'.ret = "true"
            THEN /\ store'.token = load.tok
                 /\ store.saveLogin => authStorage'.token = load.tok
            ELSE /\ store'.token = load.login
                 /\ authStorage'.token = None]_vars

\* The older token has replaced the token of the login that succeeded
\* during the wait.
C33_Witness ==
  /\ load.pc = "return"
  /\ load.login # None
  /\ load.ret = "true"
  /\ load.tok # load.login
  /\ store.token = load.tok
  /\ store.saveLogin
  /\ authStorage.token = load.tok

\* The user gave up the re-login dialog of the failed request.
ReloginCancelled ==
  /\ resp.pc = "settled"
  /\ Happened("confirm")
  /\ resp.value.kind = "cancelled"

\* C34: in the failure handling of the transport the credential-reset
\* callback and the navigation are invoked only once the user has affirmed a
\* re-login dialog: never before the dialog or while it is open, never in a
\* flow without a dialog, and only in the step of the affirmation; when the
\* user cancels neither is invoked and the promise of the request rejects.
C34_ResetAndNavigateOnlyAfterAffirmation ==
  /\ [](resp.pc \in {"idle", "alert", "confirm"} =>
          Count("resetAccessToken") = 0 /\ Count("router.push") = 0)
  /\ [](Happened("resetAccessToken") \/ Happened("router.push") =>
          /\ Count("confirm") = 1
          /\ \A i \in 1..Len(resp.log) :
               resp.log[i].ev \in {"resetAccessToken", "router.push"} =>
                 Position("confirm") < i)
  /\ [][Count("resetAccessToken")' > Count("resetAccessToken")
          \/ Count("router.push")' > Count("router.push")
        => \E env \in RouterSetups : ConfirmAffirmed(env)]_vars
  /\ [](ReloginCancelled =>
          /\ resp.settled = "rejected"
          /\ Count("resetAccessToken") = 0
          /\ Count("router.push") = 0)

\* The user cancelled the dialog: the promise is rejected and nothing was
\* reset or navigated.
C34_Witness ==
  /\ ReloginCancelled
  /\ resp.settled = "rejected"
  /\ ~Happened("resetAccessToken")
  /\ ~Happened("router.push")

\* C35: after a successful login with saveLogin false the AuthStorage holds
\* no privileges and no roles, so that a store constructed afterwards under
\* the same application code starts with empty privileges and roles and
\* without a token.
C35_NoAuthoritiesPersistedWithoutSaving ==
  [][\A response \in Responses :
       LoginResolve(response) /\ ~store'.saveLogin
         => /\ authStorage'.privileges = None
            /\ authStorage'.roles = None
            /\ Construct(authStorage').privileges = <<>>
            /\ Construct(authStorage').roles = <<>>
            /\ Construct(authStorage').token = None]_vars

\* The password and the user profile the AuthStorage holds.
PersistedLogin == <<authStorage.password, LoadUserInfo(authStorage)>>

\* C36: loadTokenFromAuthStorage only reads the persisted profile and
\* password: when no token is persisted (the call ends at once) and when the
\* persisted token proves valid (the call ends after the check), the
\* password and the profile stored before are still stored after, whatever
\* the saveLogin flag in memory.
C36_LoadKeepsPersistedLogin ==
  [][/\ load.pc = "idle" /\ load'.pc = "return" /\ authStorage.token = None
          => PersistedLogin' = PersistedLogin
     /\ load.pc = "check" /\ load'.pc = "return" /\ load'.ret = "true"
          => PersistedLogin' = PersistedLogin]_vars

\* The promise of a login has just been rejected.
LoginFailed == call.op \in {"loginByUsername", "loginByMobile", "loginByOpenId"}

OpenIdTriple == <<store.socialNetwork, store.appId, store.openId>>

\* C37: when the authentication API rejects a login of any kind, the
\* rejection is passed on to the caller, the rejection changes nothing in
\* the store or its storage (setLoginResponse is not applied), and the store
\* is logged out, with no token in memory and none persisted; the
\* social-network identity in the state changes with a successful login only.
C37_RejectedLoginLeavesLoggedOut ==
  /\ [](LoginFailed =>
          /\ call.out.settled = "rejected"
          /\ store.token = None
          /\ authStorage.token = None)
  /\ [][LoginReject => store' = store /\ authStorage' = authStorage]_vars
  /\ [][OpenIdTriple' # OpenIdTriple =>
          \E response \in Responses : LoginResolve(response)]_vars

\* A login by open id succeeded earlier; a second one was rejected, the
\* token is gone and the identity of the first is still in the state.
C37_Witness ==
  /\ LoginFailed
  /\ call.op = "loginByOpenId"
  /\ store.openId = "oid1"
  /\ store.token = None
  /\ authStorage.token = None

LogoutFailed == call.op = "logout" /\ call.out.settled = "rejected"

\* C38: when the authentication API rejects the logout, the rejection is
\* passed on to the caller and the step changes nothing of the session:
\* the store's state and the AuthStorage are what they were, the token
\* included.
C38_RejectedLogoutChangesNothing ==
  [][LogoutReject =>
       /\ LogoutFailed'
       /\ store' = store
       /\ authStorage' = authStorage
       /\ run' = run]_vars

\* A logout has been rejected and the session of the login is still there,
\* in memory and in the AuthStorage.
C38_Witness ==
  /\ LogoutFailed
  /\ store.token # None
  /\ authStorage.token # None
  /\ authStorage.token = store.token

BatchLive == call.op = "batch"

InFlight(i) == call.out[i].pc = "idle"

AllTerminated == \A i \in DOMAIN call.out : call.out[i].pc = "settled"

\* How often the response of request i has cleared the loading indicator.
ClearsBy(i) ==
  Cardinality({k \in DOMAIN call.log :
                 call.log[k].req = i /\ call.log[k].ev = "loading.clear"})

BatchCleared == \E i \in DOMAIN call.out : ClearsBy(i) > 0

\* The response of request i arrives in this step.
Arrives(i) ==
  /\ BatchLive /\ BatchLive'
  /\ i \in DOMAIN call.out
  /\ InFlight(i) /\ ~InFlight(i)'

RouterErrorThrown == resp.pc = "settled" /\ resp.value.kind = "thrown"

\* The .then() of the store's confirmLogin has thrown.
StoreRouterErrorThrown == Confirming /\ call.out.error = "router"

====
